---- MODULE Spec2Model ----
(***************************************************************************)
(* Model of the interactive scene-editing engine of the HMI designer:      *)
(* SelectionManager (components/screen/selection_manager.py), the item     *)
(* side of the interaction (components/screen/base_drawing_item.py,        *)
(* components/screen/transform_handler.py) and the pointer dispatch of     *)
(* ScreenCanvas (components/screen/screen_widget.py).                      *)
(*                                                                         *)
(* Points are pairs <<x, y>> of integers.  Items are the numbers           *)
(* 1..NumItems; every item is a RectangleTool built by _create_elements    *)
(* from one child record of the screen data.                               *)
(***************************************************************************)
EXTENDS Integers, Sequences, FiniteSets, TLC

\* ------------------------------------------------------------------ bounds

\* Number of drawable items built from the screen's children.
NumItems == 2

\* How many grid steps an item may be dragged away from a position a child
\* record gives.
MaxShift == 1

\* How many pointer and tool events one run of the canvas delivers.
MaxEvents == 6

\* How many calls one run makes on the transform handlers.
MaxCalls == 4

\* ---------------------------------------------------------------- geometry

Items == 1..NumItems

\* The background rectangle _create_background puts below the elements of a
\* screen that is not transparent.
Background == NumItems + 1

\* Everything a scene may hold.
Graphics == Items \cup {Background}

\* The items with the flag ItemIsSelectable: every BaseDrawingItem, not the
\* background.
Selectable(item) == item \in Items

\* Size of the screen, and of its background.
ScreenSize == <<1920, 1080>>

None == "None"

PAdd(a, b) == <<a[1] + b[1], a[2] + b[2]>>

PSub(a, b) == <<a[1] - b[1], a[2] - b[2]>>

\* Pointer positions (scene coordinates) the move operations are called with.
MovePoints == {<<50, 30>>, <<100, 30>>, <<100, 130>>}

\* The grid the pointer positions lie on.
Step == <<50, 100>>

\* Size of every child record of the screen data.
InitialSize == <<96, 60>>

TOOL_SELECT == "select"

\* A tool of the drawing toolbar that is no placement tool.
TOOL_LINE == "line"

\* The tools that place an element.
TOOL_BUTTON == "button"
TOOL_RECTANGLE == "rectangle"
TOOL_CIRCLE == "circle"
TOOL_POLYGON == "polygon"
TOOL_TEXT == "text"

\* Position of the i-th child record of the screen data.
InitialPos(i) ==
    IF i = Background THEN <<0, 0>> ELSE <<200 * ((i - 1) % 2), 100 * ((i - 1) \div 2)>>

\* A handler called with no tool, over no preview item, with no wheel.
NoArg == [tool |-> "", preview |-> << >>, modifiers |-> "", delta |-> 0]

\* An element record of the screen data; the instance id "<type>_<n>" is kept
\* as the pair of its parts.
Child(type, n, position, size) ==
    [instance_id |-> <<type, n>>, type |-> type, position |-> position, size |-> size]

\* The children of the screen as it is loaded: one rectangle per item.
InitialChildren ==
    [i \in 1..NumItems |-> Child(TOOL_RECTANGLE, i, InitialPos(i), InitialSize)]

InArena(p) ==
    \E j \in Items :
        LET d == PSub(p, InitialPos(j))
        IN  /\ d[1] >= 0 /\ d[1] <= Step[1] * MaxShift
            /\ d[2] >= 0 /\ d[2] <= Step[2] * MaxShift

\* Identifier assignments of the child records, up to renaming: instance ids
\* are input data, and two records may carry the same one (a record without
\* instance_id gets '').
IdAssignments ==
    {f \in [Items -> Items] :
        /\ f[1] = 1
        /\ \A i \in Items : i > 1 => \E j \in 1..(i - 1) : f[i] <= f[j] + 1}

VARIABLES
    selected_items,      \* SelectionManager.selected_items
    sm_is_moving,        \* SelectionManager._is_moving
    move_start_pos,      \* SelectionManager._move_start_pos
    original_positions,  \* SelectionManager._original_positions (id -> point)
    item_pos,            \* QGraphicsItem.pos() of every item
    item_is_moving,      \* BaseDrawingItem._is_moving of every item
    item_selected,       \* QGraphicsItem.isSelected() of every item
    scene_items,         \* items currently in the QGraphicsScene
    item_id,             \* what _get_item_id returns for every item
    item_moved,          \* item_moved emissions of the last handler, by emitting item
    selection_changed,   \* payload of the last selection_changed emission
    last_op,             \* the last operation run, with its item and point
    selection_before,    \* selected_items before the last operation
    start_positions,     \* item.pos() of every item when the move began
    start_selection,     \* selected_items when the move began
    updates_since_start, \* update_move calls since the move began (2: two or more)
    last_update_pos,     \* point of the last of them (of start_move if none)
    move_undisturbed,    \* since the last effective start_move: only update_move
                         \* calls, then at most one finish_move or cancel_move
    item_size,           \* properties["width"], properties["height"] of every item
    item_is_transforming, \* BaseDrawingItem._is_transforming of every item
    item_active_handle,  \* BaseDrawingItem._active_handle of every item
    th_active_handle,    \* TransformHandler.active_handle of every item's handler
    th_start_rect,       \* TransformHandler.start_rect
    th_start_pos,        \* TransformHandler.start_pos
    active_tool,         \* ScreenCanvas.active_tool
    marquee_active,      \* ScreenCanvas._marquee_active
    marquee_origin,      \* ScreenCanvas._marquee_origin
    marquee_rect,        \* rect() of ScreenCanvas._marquee_rect_item, None without item
    buttons_down,        \* the mouse buttons held
    mouse_grabber,       \* the scene's mouse grabber item, 0 without one
    grab_left_down,      \* buttonDownScenePos(LeftButton) of the events the grabber gets
    moving_initial,      \* the scene's initial positions of the items it drags
    th_handles,          \* TransformHandler.handles of every item: the rectangle of
                         \* every handle id, << >> for the empty dict
    th_handles_cache,    \* TransformHandler._handles_cache, << >> for None
    th_last_rect,        \* TransformHandler._last_rect, << >> for None
    prepare_order,       \* how the last change of an item's width or height stood
                         \* to prepareGeometryChange: NOTIFIED_BEFORE, NOTIFIED_AFTER
                         \* or NOT_NOTIFIED; "" before the first change
    item_is_hovering,    \* BaseDrawingItem._is_hovering of every item
    handle_hit,          \* what the last handle_at call returned
    painted,             \* the decorations the last paint drew
    zm_scale_factor,     \* ZoomManager._scale_factor, as <<numerator, denominator>>
    view_scale,          \* the scale of the view's transform
    canvas_scale_factor, \* ScreenCanvas._scale_factor
    screens,             \* ScreenService._screens, as the set of its <<id, data>> pairs
    next_id,             \* ScreenService._next_id
    new_screen_id,       \* what _get_new_screen_id returned in the last call, "" if
                         \* the call did not reach it
    screens_before,      \* _screens before the last call
    sw_scale_factor,     \* ScreenWidget._scale_factor
    zoom_changed,        \* payload of the zoom_changed emission of the last call,
                         \* << >> if it emitted none
    wheel_result,        \* <<what the last handle_wheel_event returned>>
    scale_before,        \* _scale_factor and the view's scale before the last call
    children,            \* screen_data["children"]: the element records of the screen
    children_before,     \* children before the last handler
    placement_mode,      \* ScreenCanvas.placement_mode
    placement_tool,      \* ScreenCanvas.placement_tool
    preview_item,        \* ScreenCanvas.preview_item: <<its position>>, << >> for None
    sw_active_tool,      \* ScreenWidget.active_tool; its placement_mode and
                         \* placement_tool are written with it and follow from it
    deleted,             \* the items whose C++ object scene.clear() has deleted
    raised,              \* the last update_move, finish_move or cancel_move raised
    last_arg,            \* what the last handler was called with besides an item
                         \* and a point
    item_kind,           \* the class of every item: RectangleTool or CircleTool
    item_rotation,       \* QGraphicsItem.rotation() of every item, in half degrees
    th_start_aspect_ratio, \* TransformHandler.start_aspect_ratio: <<width, height>>
                         \* for width / height, << >> for None
    update_result,       \* what the last update_transform call returned
    applied_rect,        \* the rectangle the last update_transform call applied,
                         \* << >> if it applied none
    session_rotation,    \* per item: rotation() when start_transform_at was last called
    session_pos,         \* per item: the position it was last called with
    session_snapped,     \* per item: an update_transform since then came with Shift
    session_plain,       \* per item: an update_transform since then came without Shift
    session_size,        \* per item: the size it had when start_transform_at was last called
    session_notified,    \* per item: a call since then emitted a tuple with its identifier
    session_updates,     \* per item: the update_transform calls since then, up to 2
    session_open,        \* per item: no end_transform came since then
    restarted_move,      \* the last handler called start_move during a move
    empty_press,         \* <<p>> if the last handler was a left press in Select mode at
                         \* p, a point no selectable element covers; << >> otherwise
    marquee_final,       \* <<rectangle, modifiers>> of the marquee the last handler
                         \* finalized, << >> if it finalized none
    events               \* pointer and tool events delivered to the canvas so far

vars == <<selected_items, sm_is_moving, move_start_pos, original_positions,
          item_pos, item_is_moving, item_selected, scene_items, item_id,
          item_moved, selection_changed, last_op, selection_before,
          start_positions, start_selection, updates_since_start,
          last_update_pos, move_undisturbed, item_size, item_is_transforming,
          item_active_handle, th_active_handle, th_start_rect, th_start_pos,
          active_tool, marquee_active, marquee_origin, marquee_rect,
          buttons_down, mouse_grabber, grab_left_down, moving_initial,
          th_handles, th_handles_cache, th_last_rect,
          prepare_order, item_is_hovering, handle_hit, painted,
          zm_scale_factor, view_scale, canvas_scale_factor, sw_scale_factor,
          screens, next_id, new_screen_id, screens_before,
          zoom_changed, wheel_result, scale_before,
          children, children_before, placement_mode, placement_tool, preview_item,
          sw_active_tool, deleted, raised, last_arg,
          item_kind, item_rotation, th_start_aspect_ratio, update_result,
          applied_rect, session_rotation, session_pos, session_snapped,
          session_plain, session_size, session_notified, session_updates, session_open, restarted_move, empty_press, marquee_final, events>>

\* What the calls of TransformHandler, made on their own, record.
transform_record == <<update_result, applied_rect, session_rotation, session_pos,
                      session_snapped, session_plain, session_size, session_notified,
                      session_updates, session_open>>

\* What only the calls made on an item on its own change.
side_records == <<item_is_hovering, handle_hit, painted>>

\* What placements, removals of children and scene reloads write.
screen_record == <<children, children_before, placement_mode, placement_tool,
                   preview_item, sw_active_tool, deleted, raised>>

\* What the calls of ZoomManager write.
zoom_record == <<zm_scale_factor, view_scale, canvas_scale_factor, sw_scale_factor,
                 zoom_changed, wheel_result, scale_before>>

\* What the handlers of the selection, the items and the handles leave alone.
\* What the calls of ScreenService change.
service_record == <<screens, next_id, new_screen_id, screens_before>>

other_records == <<zoom_record, screen_record, service_record, last_arg>>

\* What the operations of SelectionManager, called on their own, leave alone.
canvas_vars == <<item_id, item_size, item_is_transforming, item_active_handle,
                 th_active_handle, th_start_rect, th_start_pos, active_tool,
                 marquee_active, marquee_origin, marquee_rect, buttons_down,
                 mouse_grabber, grab_left_down, moving_initial, restarted_move,
                 empty_press, marquee_final, events, item_kind, item_rotation,
                 th_start_aspect_ratio, transform_record, th_handles,
                 th_handles_cache, th_last_rect, prepare_order, side_records,
                 other_records>>

\* ------------------------------------------------------- SelectionManager

\* The state the operations of SelectionManager read and write, as a record.
World ==
    [sel |-> selected_items, moving |-> sm_is_moving, msp |-> move_start_pos,
     orig |-> original_positions, pos |-> item_pos, imov |-> item_is_moving,
     qsel |-> item_selected, scene |-> scene_items, moved |-> item_moved,
     schg |-> selection_changed, spos |-> start_positions,
     ssel |-> start_selection, nupd |-> updates_since_start,
     lastpt |-> last_update_pos, steady |-> move_undisturbed,
     size |-> item_size, itr |-> item_is_transforming, iah |-> item_active_handle,
     tah |-> th_active_handle, tsr |-> th_start_rect, tsp |-> th_start_pos,
     grabber |-> mouse_grabber, gld |-> grab_left_down, minit |-> moving_initial,
     rot |-> item_rotation, tar |-> th_start_aspect_ratio,
     hh |-> th_handles, hc |-> th_handles_cache, hlr |-> th_last_rect,
     geo |-> prepare_order]

Apply(w) ==
    /\ selected_items' = w.sel
    /\ sm_is_moving' = w.moving
    /\ move_start_pos' = w.msp
    /\ original_positions' = w.orig
    /\ item_pos' = w.pos
    /\ item_is_moving' = w.imov
    /\ item_selected' = w.qsel
    /\ scene_items' = w.scene
    /\ item_moved' = w.moved
    /\ selection_changed' = w.schg
    /\ start_positions' = w.spos
    /\ start_selection' = w.ssel
    /\ updates_since_start' = w.nupd
    /\ last_update_pos' = w.lastpt
    /\ move_undisturbed' = w.steady
    /\ selection_before' = selected_items

\* The same, for a handler of the canvas, which reaches the items too.
ApplyAll(w) ==
    /\ Apply(w)
    /\ item_size' = w.size
    /\ item_is_transforming' = w.itr
    /\ item_active_handle' = w.iah
    /\ th_active_handle' = w.tah
    /\ th_start_rect' = w.tsr
    /\ th_start_pos' = w.tsp
    /\ mouse_grabber' = w.grabber
    /\ grab_left_down' = w.gld
    /\ moving_initial' = w.minit
    /\ item_rotation' = w.rot
    /\ th_start_aspect_ratio' = w.tar
    /\ th_handles' = w.hh
    /\ th_handles_cache' = w.hc
    /\ th_last_rect' = w.hlr
    /\ prepare_order' = w.geo

\* A handler starts with nothing emitted on item_moved.
Fresh(w) == [w EXCEPT !.moved = << >>]

\* Where prepareGeometryChange stood to the store of a new width or height.
NOTIFIED_BEFORE == "prepareGeometryChange, then the store"
NOTIFIED_AFTER == "the store, then prepareGeometryChange"
NOT_NOTIFIED == "the store, no prepareGeometryChange"

\* TransformHandler.invalidate_cache, on the handler of every item of a set;
\* the background has no handler.
invalidate_cache(w, items) ==
    [w EXCEPT !.hc = [i \in Items |-> IF i \in items THEN << >> ELSE w.hc[i]],
              !.hlr = [i \in Items |-> IF i \in items THEN << >> ELSE w.hlr[i]]]

\* BaseDrawingItem.itemChange with ItemPositionHasChanged, which Qt sends to
\* every item whose position a handler changed: after is the state the
\* handler leaves, before the state it found.
itemChange(before, after) ==
    invalidate_cache(after, {i \in Items : before.pos[i] # after.pos[i]})

\* The background has neither element_data nor data(0): its identifier is
\* str(id(item)), which no element carries (0 here).
get_item_id(item) == IF item = Background THEN 0 ELSE item_id[item]

\* The list selection_changed carries: one identifier per selected item.
SelectedIds(sel) == [i \in sel |-> get_item_id(i)]

\* clear_selection that emits nothing.
clear_selection_silent(w) ==
    [w EXCEPT !.qsel = [i \in Graphics |-> IF i \in w.sel THEN FALSE ELSE w.qsel[i]],
              !.sel = {}]

clear_selection(w) ==
    [w EXCEPT !.qsel = [i \in Graphics |-> IF i \in w.sel THEN FALSE ELSE w.qsel[i]],
              !.sel = {},
              !.schg = SelectedIds({})]

\* select_item that keeps the previous selection whatever multi_select says.
select_item_keeping_selection(w, item, multi_select) ==
    IF item \notin w.sel
    THEN [w EXCEPT !.sel = w.sel \cup {item},
                   !.qsel = [w.qsel EXCEPT ![item] = Selectable(item)],
                   !.schg = SelectedIds(w.sel \cup {item})]
    ELSE w

select_item(w, item, multi_select) ==
    LET w1 == IF multi_select THEN w ELSE clear_selection(w)
    IN  IF item \notin w1.sel
        THEN [w1 EXCEPT !.sel = w1.sel \cup {item},
                        !.qsel = [w1.qsel EXCEPT ![item] = Selectable(item)],
                        !.schg = SelectedIds(w1.sel \cup {item})]
        ELSE w1

\* deselect_item that leaves the item in selected_items.
deselect_item_keeping_member(w, item) ==
    IF item \in w.sel
    THEN [w EXCEPT !.qsel = [w.qsel EXCEPT ![item] = FALSE],
                   !.schg = SelectedIds(w.sel \ {item})]
    ELSE w

deselect_item(w, item) ==
    IF item \in w.sel
    THEN [w EXCEPT !.sel = w.sel \ {item},
                   !.qsel = [w.qsel EXCEPT ![item] = FALSE],
                   !.schg = SelectedIds(w.sel \ {item})]
    ELSE w

toggle_selection(w, item) ==
    IF item \in w.sel THEN deselect_item(w, item) ELSE select_item(w, item, TRUE)

\* The identifiers of the selected items.
IdsOf(sel) == {get_item_id(i) : i \in sel}

\* The dict comprehension of start_move keeps, for every identifier, the
\* position of the item the set iteration visits last; the iteration order of
\* a Python set is not fixed, so any item carrying the identifier may be it.
LastVisited(sel) ==
    {r \in [IdsOf(sel) -> sel] : \A k \in IdsOf(sel) : get_item_id(r[k]) = k}

start_move(w, scene_pos, r) ==
    IF w.sel = {}
    THEN w
    ELSE [w EXCEPT !.moving = TRUE,
                   !.msp = scene_pos,
                   !.orig = [k \in IdsOf(w.sel) |-> w.pos[r[k]]],
                   !.imov = [i \in Graphics |-> IF i \in w.sel THEN TRUE ELSE w.imov[i]]]

update_move(w, scene_pos) ==
    IF ~w.moving
    THEN w
    ELSE LET delta == PSub(scene_pos, w.msp)
         IN  itemChange(w, [w EXCEPT !.pos = [i \in Graphics |->
                                   IF i \in w.sel /\ get_item_id(i) \in DOMAIN w.orig
                                   THEN PAdd(w.orig[get_item_id(i)], delta)
                                   ELSE w.pos[i]]])

\* finish_move that does not clear _original_positions.
finish_move_keeping_snapshot(w, scene_pos) ==
    IF ~w.moving
    THEN w
    ELSE LET delta == PSub(scene_pos, w.msp)
             original_pos(i) == IF get_item_id(i) \in DOMAIN w.orig
                                THEN w.orig[get_item_id(i)]
                                ELSE w.pos[i]
         IN  invalidate_cache(
                 [w EXCEPT !.moved = [i \in w.sel |->
                                         <<get_item_id(i), original_pos(i),
                                           PAdd(original_pos(i), delta)>>],
                           !.imov = [i \in Graphics |->
                                        IF i \in w.sel THEN FALSE ELSE w.imov[i]],
                           !.moving = FALSE],
                 w.sel)

finish_move(w, scene_pos) ==
    IF ~w.moving
    THEN w
    ELSE LET delta == PSub(scene_pos, w.msp)
             original_pos(i) == IF get_item_id(i) \in DOMAIN w.orig
                                THEN w.orig[get_item_id(i)]
                                ELSE w.pos[i]
         IN  invalidate_cache(
                 [w EXCEPT !.moved = [i \in w.sel |->
                                         <<get_item_id(i), original_pos(i),
                                           PAdd(original_pos(i), delta)>>],
                           !.imov = [i \in Graphics |->
                                        IF i \in w.sel THEN FALSE ELSE w.imov[i]],
                           !.moving = FALSE,
                           !.orig = << >>],
                 w.sel)

cancel_move(w) ==
    IF ~w.moving
    THEN w
    ELSE LET known(i) == i \in w.sel /\ get_item_id(i) \in DOMAIN w.orig
         IN  invalidate_cache(
                 [w EXCEPT !.pos = [i \in Graphics |->
                                       IF known(i) THEN w.orig[get_item_id(i)] ELSE w.pos[i]],
                           !.imov = [i \in Graphics |->
                                        IF known(i) THEN FALSE ELSE w.imov[i]],
                           !.moving = FALSE,
                           !.orig = << >>],
                 {i \in Graphics : known(i)})

\* handle_key_press with Key_Delete: the selected items leave the scene, then
\* the selection is cleared.
key_delete(w) == clear_selection([w EXCEPT !.scene = w.scene \ w.sel])

RECURSIVE select_each(_, _)
select_each(w, todo) ==
    IF todo = {}
    THEN w
    ELSE LET i == CHOOSE x \in todo : \A y \in todo : x <= y
         IN  select_each(select_item(w, i, TRUE), todo \ {i})

\* handle_key_press with Ctrl+A: every selectable item of the scene is
\* selected with multi_select.
key_select_all(w) == select_each(w, {i \in w.scene : Selectable(i)})

\* ------------------------------------------------------- TransformHandler

TOP_LEFT == 0
TOP == 1
TOP_RIGHT == 2
RIGHT == 3
BOTTOM_RIGHT == 4
BOTTOM == 5
BOTTOM_LEFT == 6
LEFT == 7
ROTATION == 8

\* None where the code holds a handle id.
NoHandle == -1

handle_size == 8
handle_space == 1
rotation_offset == 20
min_size == 8

\* Rectangles are <<left, top, right, bottom>>.
RectAt(x, y, width, height) == <<x, y, x + width, y + height>>

RectWidth(rect) == rect[3] - rect[1]

RectHeight(rect) == rect[4] - rect[2]

\* QRectF.contains(QPointF): the edges belong to the rectangle.
RectContainsPoint(rect, p) ==
    /\ rect[1] <= p[1] /\ p[1] <= rect[3]
    /\ rect[2] <= p[2] /\ p[2] <= rect[4]

RECTANGLE == "rectangle"
CIRCLE == "circle"

\* properties["diameter"] of a CircleTool; nothing the model does writes it.
diameter == 60

\* RectangleTool.boundingRect: the origin, and properties["width"] and
\* properties["height"]; CircleTool.boundingRect: the origin and
\* properties["diameter"] both ways.  The background is a QGraphicsRectItem
\* of the size of the screen.
boundingRect(w, item) ==
    IF item \in Items /\ item_kind[item] = CIRCLE
    THEN RectAt(0, 0, diameter, diameter)
    ELSE RectAt(0, 0, w.size[item][1], w.size[item][2])

\* update_handles: the nine handle rectangles around rect.  The widths and
\* heights of the model are even, so the centre is a whole number.
HandleRects(rect) ==
    LET hs == handle_size
        sp == handle_space
        cx == (rect[1] + rect[3]) \div 2
        cy == (rect[2] + rect[4]) \div 2
    IN  [hid \in TOP_LEFT..ROTATION |->
           CASE hid = TOP_LEFT -> RectAt(rect[1] - hs - sp, rect[2] - hs - sp, hs, hs)
             [] hid = TOP -> RectAt(cx - hs \div 2, rect[2] - hs - sp, hs, hs)
             [] hid = TOP_RIGHT -> RectAt(rect[3] + sp, rect[2] - hs - sp, hs, hs)
             [] hid = RIGHT -> RectAt(rect[3] + sp, cy - hs \div 2, hs, hs)
             [] hid = BOTTOM_RIGHT -> RectAt(rect[3] + sp, rect[4] + sp, hs, hs)
             [] hid = BOTTOM -> RectAt(cx - hs \div 2, rect[4] + sp, hs, hs)
             [] hid = BOTTOM_LEFT -> RectAt(rect[1] - hs - sp, rect[4] + sp, hs, hs)
             [] hid = LEFT -> RectAt(rect[1] - hs - sp, cy - hs \div 2, hs, hs)
             [] hid = ROTATION -> RectAt(cx - hs \div 2,
                                         rect[2] - rotation_offset - hs, hs, hs)]

\* update_handles: the cached rectangles if there are any and they were
\* computed for the bounding rectangle of now, fresh ones otherwise.
update_handles(w, item) ==
    IF w.hc[item] # << >> /\ w.hlr[item] = boundingRect(w, item)
    THEN [w EXCEPT !.hh = [w.hh EXCEPT ![item] = w.hc[item]]]
    ELSE [w EXCEPT !.hlr = [w.hlr EXCEPT ![item] = boundingRect(w, item)],
                   !.hh = [w.hh EXCEPT ![item] = HandleRects(boundingRect(w, item))],
                   !.hc = [w.hc EXCEPT ![item] = HandleRects(boundingRect(w, item))]]

\* The loop of handle_at: the first handle, in the order of the dictionary,
\* whose rectangle contains the local position.
HitTest(handles, pos) ==
    LET hit == {hid \in DOMAIN handles : RectContainsPoint(handles[hid], pos)}
    IN  IF hit = {} THEN NoHandle ELSE CHOOSE hid \in hit : \A other \in hit : hid <= other

\* handle_at without update_handles: the rectangles self.handles holds.
handle_at_held(w, item, pos) == HitTest(w.hh[item], pos)

\* What handle_at returns; update_handles(w, item) is the state it leaves.
handle_at(w, item, pos) == HitTest(update_handles(w, item).hh[item], pos)

\* Qt.KeyboardModifier, as far as the handlers tell the values apart.
NoModifier == "none"
ShiftModifier == "shift"
ControlModifier == "control"

\* No aspect ratio: start_aspect_ratio is None.
NoRatio == << >>

start_transform_at(w, item, handle_id, pos) ==
    [w EXCEPT !.tah = [w.tah EXCEPT ![item] = handle_id],
              !.tsr = [w.tsr EXCEPT ![item] = boundingRect(w, item)],
              !.tsp = [w.tsp EXCEPT ![item] = pos],
              !.tar = [w.tar EXCEPT ![item] =
                          IF RectHeight(boundingRect(w, item)) # 0
                          THEN <<RectWidth(boundingRect(w, item)),
                                 RectHeight(boundingRect(w, item))>>
                          ELSE NoRatio]]

Abs(x) == IF x < 0 THEN -x ELSE x

\* The resize logic of update_transform: the edges of the handle follow the
\* pointer.
MovedRect(start_rect, handle, dx, dy) ==
    CASE handle = TOP_LEFT -> [start_rect EXCEPT ![1] = @ + dx, ![2] = @ + dy]
      [] handle = TOP -> [start_rect EXCEPT ![2] = @ + dy]
      [] handle = TOP_RIGHT -> [start_rect EXCEPT ![3] = @ + dx, ![2] = @ + dy]
      [] handle = RIGHT -> [start_rect EXCEPT ![3] = @ + dx]
      [] handle = BOTTOM_RIGHT -> [start_rect EXCEPT ![3] = @ + dx, ![4] = @ + dy]
      [] handle = BOTTOM -> [start_rect EXCEPT ![4] = @ + dy]
      [] handle = BOTTOM_LEFT -> [start_rect EXCEPT ![1] = @ + dx, ![4] = @ + dy]
      [] handle = LEFT -> [start_rect EXCEPT ![1] = @ + dx]

\* "if modifiers & ShiftModifier and self.start_aspect_ratio": a ratio that is
\* neither None nor 0.0.
RatioApplies(ratio) == ratio # NoRatio /\ ratio[1] # 0

\* The quotients of the aspect-ratio branch, with ratio = <<rw, rh>>:
\* width / ratio, and the halves taken about the centre.  The numbers of the
\* model are whole; LockIsWhole tells whether the quotients of a call are.
HeightFor(width, ratio) == (width * ratio[2]) \div ratio[1]

WidthFor(height, ratio) == (height * ratio[1]) \div ratio[2]

LockIsWhole(rect, handle, dx, dy, ratio) ==
    IF handle \in {TOP_LEFT, TOP_RIGHT, BOTTOM_LEFT, BOTTOM_RIGHT}
    THEN IF Abs(dx) > Abs(dy)
         THEN (RectWidth(rect) * ratio[2]) % ratio[1] = 0
         ELSE (RectHeight(rect) * ratio[1]) % ratio[2] = 0
    ELSE IF handle \in {LEFT, RIGHT}
         THEN /\ (RectWidth(rect) * ratio[2]) % ratio[1] = 0
              /\ (rect[2] + rect[4] - HeightFor(RectWidth(rect), ratio)) % 2 = 0
         ELSE /\ (RectHeight(rect) * ratio[1]) % ratio[2] = 0
              /\ (rect[1] + rect[3] - WidthFor(RectHeight(rect), ratio)) % 2 = 0

\* The aspect-ratio branch of update_transform.
LockedRect(rect, handle, dx, dy, ratio) ==
    IF handle \in {TOP_LEFT, TOP_RIGHT, BOTTOM_LEFT, BOTTOM_RIGHT}
    THEN IF Abs(dx) > Abs(dy)
         THEN IF handle \in {TOP_LEFT, TOP_RIGHT}
              THEN [rect EXCEPT ![2] = rect[4] - HeightFor(RectWidth(rect), ratio)]
              ELSE [rect EXCEPT ![4] = rect[2] + HeightFor(RectWidth(rect), ratio)]
         ELSE IF handle \in {TOP_LEFT, BOTTOM_LEFT}
              THEN [rect EXCEPT ![1] = rect[3] - WidthFor(RectHeight(rect), ratio)]
              ELSE [rect EXCEPT ![3] = rect[1] + WidthFor(RectHeight(rect), ratio)]
    ELSE IF handle \in {LEFT, RIGHT}
         THEN LET height == HeightFor(RectWidth(rect), ratio)
              IN  [rect EXCEPT ![2] = (rect[2] + rect[4] - height) \div 2,
                               ![4] = (rect[2] + rect[4] + height) \div 2]
         ELSE LET width == WidthFor(RectHeight(rect), ratio)
              IN  [rect EXCEPT ![1] = (rect[1] + rect[3] - width) \div 2,
                               ![3] = (rect[1] + rect[3] + width) \div 2]

\* No minimum size: the rectangle as it is.
UnclampedRect(rect, handle) == rect

\* A minimum size kept by the right and the bottom edge, whichever the handle.
ClampedFromOrigin(rect, handle) ==
    [rect EXCEPT ![3] = IF RectWidth(rect) < min_size THEN rect[1] + min_size ELSE @,
                 ![4] = IF RectHeight(rect) < min_size THEN rect[2] + min_size ELSE @]

\* "Enforce a minimum size".
ClampedRect(rect, handle) ==
    LET wide ==
          IF RectWidth(rect) < min_size
          THEN IF handle \in {TOP_LEFT, BOTTOM_LEFT, LEFT}
               THEN [rect EXCEPT ![1] = rect[3] - min_size]
               ELSE [rect EXCEPT ![3] = rect[1] + min_size]
          ELSE rect
    IN  IF RectHeight(wide) < min_size
        THEN IF handle \in {TOP_LEFT, TOP, TOP_RIGHT}
             THEN [wide EXCEPT ![2] = wide[4] - min_size]
             ELSE [wide EXCEPT ![4] = wide[2] + min_size]
        ELSE wide

\* The rectangle update_transform computes for a resize handle.
ResizedRect(start_rect, handle, dx, dy, modifiers, ratio) ==
    LET moved == MovedRect(start_rect, handle, dx, dy)
    IN  ClampedRect(IF modifiers = ShiftModifier /\ RatioApplies(ratio)
                    THEN LockedRect(moved, handle, dx, dy, ratio)
                    ELSE moved,
                    handle)

\* Angles are in half degrees.  _vector_angle of a vector that points along
\* an axis or a diagonal; VectorIsCompass tells whether a vector does.
VectorIsCompass(v) == v[1] = 0 \/ v[2] = 0 \/ Abs(v[1]) = Abs(v[2])

\* Vectors of the directions (11, 1) and (11, 2), at atan2(1, 11) = 5.19 and
\* atan2(2, 11) = 10.30 degrees: _vector_angle of them to the nearest half
\* degree is 10 and 21 half degrees.
VectorIsShallow(v) == v[1] > 0 /\ (11 * v[2] = v[1] \/ 11 * v[2] = 2 * v[1])

\* The vectors vector_angle is tabled for.
VectorHasAngle(v) == VectorIsCompass(v) \/ VectorIsShallow(v)

vector_angle(v) ==
    CASE v[1] = 0 /\ v[2] = 0 -> 0
      [] v[1] > 0 /\ v[2] = 0 -> 0
      [] v[1] > 0 /\ v[2] = v[1] -> 90
      [] v[1] = 0 /\ v[2] > 0 -> 180
      [] v[1] < 0 /\ v[2] = -v[1] -> 270
      [] v[1] < 0 /\ v[2] = 0 -> 360
      [] v[1] < 0 /\ v[2] = v[1] -> -270
      [] v[1] = 0 /\ v[2] < 0 -> -180
      [] v[1] > 0 /\ v[2] = -v[1] -> -90
      [] v[1] > 0 /\ 11 * v[2] = v[1] -> 10
      [] v[1] > 0 /\ 11 * v[2] = 2 * v[1] -> 21

\* The step of the rotation snap, 15 degrees.
snap_step == 30

\* Python's round(): to the nearest whole number, a tie to the even one.
RoundHalfEven(a, b) ==
    LET q == a \div b
        r == a % b
    IN  IF 2 * r < b THEN q
        ELSE IF 2 * r > b THEN q + 1
        ELSE IF q % 2 = 0 THEN q ELSE q + 1

\* Twice the vector from the centre of rect to pos, which has the direction
\* of pos - center.
FromCentre(rect, pos) == <<2 * pos[1] - rect[1] - rect[3], 2 * pos[2] - rect[2] - rect[4]>>

\* The angle of the rotation branch, never snapped.
RotatedAngleUnsnapped(w, item, pos, modifiers) ==
    w.rot[item] + vector_angle(FromCentre(boundingRect(w, item), pos))
                - vector_angle(FromCentre(boundingRect(w, item), w.tsp[item]))

\* The rotation branch of update_transform: the angle it sets.
RotatedAngle(w, item, pos, modifiers) ==
    LET rect == boundingRect(w, item)
        angle_delta == vector_angle(FromCentre(rect, pos))
                          - vector_angle(FromCentre(rect, w.tsp[item]))
        new_angle == w.rot[item] + angle_delta
    IN  IF modifiers = ShiftModifier
        THEN RoundHalfEven(new_angle, snap_step) * snap_step
        ELSE new_angle

\* Whether the quotients and angles of the call are whole numbers.
UpdateIsWhole(w, item, pos, modifiers) ==
    IF w.tah[item] = NoHandle
    THEN TRUE
    ELSE IF w.tah[item] = ROTATION
         THEN /\ VectorHasAngle(FromCentre(boundingRect(w, item), pos))
              /\ VectorHasAngle(FromCentre(boundingRect(w, item), w.tsp[item]))
         ELSE (modifiers = ShiftModifier /\ RatioApplies(w.tar[item]))
              => LockIsWhole(MovedRect(w.tsr[item], w.tah[item],
                                       pos[1] - w.tsp[item][1], pos[2] - w.tsp[item][2]),
                             w.tah[item], pos[1] - w.tsp[item][1],
                             pos[2] - w.tsp[item][2], w.tar[item])

\* What update_transform returns.
update_transform_result(w, item) == w.tah[item] # NoHandle

\* The rectangle update_transform applies; << >> if it applies none.
update_transform_rect(w, item, pos, modifiers) ==
    IF w.tah[item] = NoHandle \/ w.tah[item] = ROTATION
    THEN << >>
    ELSE ResizedRect(w.tsr[item], w.tah[item], pos[1] - w.tsp[item][1],
                     pos[2] - w.tsp[item][2], modifiers, w.tar[item])

\* The rotation of update_transform with start_pos left where the session
\* started.
update_transform_from_session_start(w, item, pos, modifiers) ==
    IF w.tah[item] = ROTATION
    THEN [w EXCEPT !.rot = [w.rot EXCEPT ![item] =
                               RotatedAngle(w, item, pos, modifiers)]]
    ELSE w

\* update_transform on a RectangleTool or a CircleTool, which have neither
\* setRect nor resize and no "x"/"y" property: the size of the rectangle goes
\* into properties["width"] and properties["height"]; a rotation handle sets
\* the rotation and moves start_pos to the pointer.
update_transform(w, item, pos, modifiers) ==
    IF w.tah[item] = NoHandle
    THEN w
    ELSE IF w.tah[item] = ROTATION
         THEN [w EXCEPT !.rot = [w.rot EXCEPT ![item] =
                                    RotatedAngle(w, item, pos, modifiers)],
                        !.tsp = [w.tsp EXCEPT ![item] = pos]]
         ELSE LET rect == update_transform_rect(w, item, pos, modifiers)
              IN  invalidate_cache(
                      [w EXCEPT !.size = [w.size EXCEPT ![item] =
                                             <<RectWidth(rect), RectHeight(rect)>>],
                                !.geo = NOT_NOTIFIED],
                      {item})

\* An end of the session that resets nothing.
end_transform_keeping_handle(w, item) == w

\* end_transform: "Reset transform state"; start_aspect_ratio stays.
end_transform(w, item) ==
    invalidate_cache([w EXCEPT !.tah = [w.tah EXCEPT ![item] = NoHandle],
                               !.tsr = [w.tsr EXCEPT ![item] = None],
                               !.tsp = [w.tsp EXCEPT ![item] = None]],
                     {item})

\* -------------------------------------------------------- BaseDrawingItem

\* What a properties dictionary holds for "width" and "height" once props is
\* stored into it, key by key; props carries both keys or neither.
StoredSize(size, props) ==
    IF {"width", "height"} \subseteq DOMAIN props
    THEN <<props.width, props.height>>
    ELSE size

ChangesSize(props) == {"width", "height"} \cap DOMAIN props # {}

\* RectangleTool.update_properties and CircleTool.update_properties:
\* BaseDrawingItem.update_properties stores every key and invalidates the
\* handle cache, and prepareGeometryChange is called after it.
update_properties(w, item, props) ==
    invalidate_cache(
        [w EXCEPT !.size = [w.size EXCEPT ![item] = StoredSize(w.size[item], props)],
                  !.geo = IF ChangesSize(props) THEN NOTIFIED_AFTER ELSE w.geo],
        {item})

\* The decorations of an item.
HANDLES == "handles"
HOVER == "hover outline"

\* BaseDrawingItem.paint with both decorations tested on their own.
DecorationsUnguarded(w, item) ==
    (IF w.qsel[item] THEN {HANDLES} ELSE {})
    \cup (IF item_is_hovering[item] THEN {HOVER} ELSE {})

\* What BaseDrawingItem.paint draws over the content: the handler's paint if
\* the item is selected, which draws nothing while the item is moving, else
\* the hover outline if the pointer is over the item.
Decorations(w, item) ==
    IF w.qsel[item]
    THEN IF w.imov[item] THEN {} ELSE {HANDLES}
    ELSE IF item_is_hovering[item] THEN {HOVER} ELSE {}

\* BaseDrawingItem.paint: TransformHandler.paint updates the handles before
\* it draws them.
paint(w, item) ==
    IF w.qsel[item] /\ ~w.imov[item] THEN update_handles(w, item) ELSE w

LeftButton == "left"
RightButton == "right"

\* QGraphicsScene.clearSelection.
QtClearSelection(w) == [w EXCEPT !.qsel = [i \in Graphics |-> FALSE]]

\* QGraphicsItem.mousePressEvent of a selectable, movable item: a left press
\* without Control makes an unselected item the only selected one.
QtItemPress(w, item, button, modifiers) ==
    IF button = LeftButton /\ modifiers # ControlModifier /\ ~w.qsel[item]
    THEN [QtClearSelection(w) EXCEPT !.qsel[item] = TRUE]
    ELSE w

\* BaseDrawingItem.mousePressEvent; pos is in the item's coordinates.
item_mousePressEvent(w, item, pos, button, modifiers) ==
    LET looked == IF button = LeftButton /\ w.qsel[item] THEN update_handles(w, item) ELSE w
    IN  IF /\ button = LeftButton
           /\ w.qsel[item]
           /\ handle_at(w, item, pos) # NoHandle
        THEN LET handle == handle_at(w, item, pos)
             IN  start_transform_at([looked EXCEPT !.itr[item] = TRUE,
                                                   !.iah[item] = handle],
                                    item, handle, pos)
        ELSE QtItemPress(IF button = LeftButton
                         THEN invalidate_cache([looked EXCEPT !.imov[item] = TRUE], {item})
                         ELSE looked,
                         item, button, modifiers)

\* QGraphicsItem.mouseMoveEvent of a movable item with the left button held:
\* the selected items of the scene and the item itself are set to their
\* initial position plus the pointer's displacement since the left press, and
\* are selected.
QtItemMove(w, item, scene_pos, buttons) ==
    IF LeftButton \notin buttons
    THEN w
    ELSE LET dragged == {j \in w.scene : w.qsel[j]} \cup {item}
             initial == IF DOMAIN w.minit = {}
                        THEN [j \in dragged |-> w.pos[j]]
                        ELSE w.minit
             down == w.gld
             from(j) == IF j \in DOMAIN initial THEN initial[j] ELSE <<0, 0>>
         IN  itemChange(w,
                 [w EXCEPT !.minit = initial,
                           !.pos = [j \in Graphics |->
                                       IF j \in dragged
                                       THEN PAdd(from(j), PSub(scene_pos, down))
                                       ELSE w.pos[j]],
                           !.qsel = [j \in Graphics |-> j \in dragged \/ w.qsel[j]]])

\* BaseDrawingItem.mouseMoveEvent.
item_mouseMoveEvent(w, item, pos, scene_pos, buttons) ==
    IF w.itr[item] /\ w.iah[item] # NoHandle
    THEN update_transform(w, item, pos, NoModifier)
    ELSE QtItemMove(IF LeftButton \in buttons THEN [w EXCEPT !.imov[item] = TRUE] ELSE w,
                    item, scene_pos, buttons)

\* QGraphicsItem.mouseReleaseEvent of a selectable item: a left release at the
\* point of the left press toggles the item with Control and makes it the
\* only selected item without; the initial positions are dropped with the
\* last button.
QtItemRelease(w, item, scene_pos, button, modifiers, buttons) ==
    LET w1 == IF button = LeftButton /\ scene_pos = w.gld
              THEN IF modifiers = ControlModifier
                   THEN [w EXCEPT !.qsel[item] = ~w.qsel[item]]
                   ELSE [QtClearSelection(w) EXCEPT !.qsel[item] = TRUE]
              ELSE w
    IN  IF buttons = {} THEN [w1 EXCEPT !.minit = << >>] ELSE w1

\* BaseDrawingItem.mouseReleaseEvent; buttons are those still held.
item_mouseReleaseEvent(w, item, scene_pos, button, modifiers, buttons) ==
    IF w.itr[item] /\ button = LeftButton
    THEN end_transform([w EXCEPT !.itr[item] = FALSE, !.iah[item] = NoHandle], item)
    ELSE QtItemRelease(IF button = LeftButton /\ w.imov[item]
                       THEN invalidate_cache([w EXCEPT !.imov[item] = FALSE], {item})
                       ELSE w,
                       item, scene_pos, button, modifiers, buttons)

\* ----------------------------------------------------------- ScreenCanvas

\* The scene rectangle an item covers.
sceneBoundingRect(w, item) ==
    RectAt(w.pos[item][1], w.pos[item][2],
           RectWidth(boundingRect(w, item)), RectHeight(boundingRect(w, item)))

ItemsAt(w, scene_pos) ==
    {i \in w.scene : RectContainsPoint(sceneBoundingRect(w, i), scene_pos)}

\* The topmost element under the point, the one added to the scene last;
\* 0 stands for no item.
ElementAt(w, scene_pos) ==
    LET hit == ItemsAt(w, scene_pos) \cap Items
    IN  IF hit = {} THEN 0 ELSE CHOOSE i \in hit : \A j \in hit : j <= i

\* itemAt: the topmost item under the point; the background, added first,
\* lies below every element.
itemAt(w, scene_pos) ==
    IF ElementAt(w, scene_pos) # 0
    THEN ElementAt(w, scene_pos)
    ELSE IF Background \in ItemsAt(w, scene_pos) THEN Background ELSE 0

\* The position in the item's coordinates; no item of the model is rotated.
mapFromScene(w, item, scene_pos) == PSub(scene_pos, w.pos[item])

handle_mouse_press(w, modifiers, item) ==
    IF modifiers \in {ShiftModifier, ControlModifier}
    THEN IF item # 0 THEN toggle_selection(w, item) ELSE w
    ELSE IF item # 0 THEN select_item(w, item, FALSE) ELSE clear_selection(w)

\* QGraphicsView.mousePressEvent: the press goes to the mouse grabber if the
\* scene has one, else to the topmost item under the point, which accepts it
\* and becomes the grabber; the scene then stores the point as the button-down
\* position of every button held, and the origin stays that of the others.
\* The background ignores the press.  A press no item accepts clears the
\* scene's selection unless Control is held.
QtScenePress(w, scene_pos, button, modifiers, buttons) ==
    IF w.grabber # 0
    THEN item_mousePressEvent(w, w.grabber, mapFromScene(w, w.grabber, scene_pos),
                              button, modifiers)
    ELSE LET item == ElementAt(w, scene_pos)
         IN  IF item # 0
             THEN item_mousePressEvent(
                      [w EXCEPT !.grabber = item,
                                !.gld = IF LeftButton \in buttons
                                        THEN scene_pos
                                        ELSE <<0, 0>>],
                      item, mapFromScene(w, item, scene_pos), button, modifiers)
             ELSE IF modifiers = ControlModifier THEN w ELSE QtClearSelection(w)

\* QGraphicsView.mouseMoveEvent: the move goes to the mouse grabber.
QtSceneMove(w, scene_pos, buttons) ==
    IF w.grabber # 0
    THEN item_mouseMoveEvent(w, w.grabber, mapFromScene(w, w.grabber, scene_pos),
                             scene_pos, buttons)
    ELSE w

\* QGraphicsView.mouseReleaseEvent: the release goes to the mouse grabber,
\* which loses the grab with the last button.
QtSceneRelease(w, scene_pos, button, modifiers, buttons) ==
    IF w.grabber # 0
    THEN LET w1 == item_mouseReleaseEvent(w, w.grabber, scene_pos, button,
                                          modifiers, buttons)
         IN  IF buttons = {} THEN [w1 EXCEPT !.grabber = 0, !.gld = <<0, 0>>] ELSE w1
    ELSE w

\* QRectF(a, b).normalized().
NormalizedRect(a, b) ==
    <<IF a[1] <= b[1] THEN a[1] ELSE b[1], IF a[2] <= b[2] THEN a[2] ELSE b[2],
      IF a[1] <= b[1] THEN b[1] ELSE a[1], IF a[2] <= b[2] THEN b[2] ELSE a[2]>>

\* QRectF.contains(QRectF): an empty rectangle contains nothing and is
\* contained in nothing.
RectContainsRect(outer, inner) ==
    /\ outer[1] # outer[3] /\ outer[2] # outer[4]
    /\ inner[1] # inner[3] /\ inner[2] # inner[4]
    /\ outer[1] <= inner[1] /\ inner[3] <= outer[3]
    /\ outer[2] <= inner[2] /\ inner[4] <= outer[4]

RECURSIVE toggle_each(_, _)
toggle_each(w, todo) ==
    IF todo = {}
    THEN w
    ELSE LET i == CHOOSE x \in todo : \A y \in todo : x <= y
         IN  toggle_each(toggle_selection(w, i), todo \ {i})

\* The marquee branch that adds to the selection it finds.
finalize_marquee_keeping_selection(w, selection_rect, modifiers) ==
    LET items_to_process ==
            {i \in w.scene : /\ Selectable(i)
                              /\ RectContainsRect(selection_rect, sceneBoundingRect(w, i))}
    IN  IF modifiers = ShiftModifier
        THEN toggle_each(w, items_to_process)
        ELSE select_each(w, items_to_process)

\* The marquee branch of mouseReleaseEvent.
finalize_marquee(w, selection_rect, modifiers) ==
    LET items_to_process ==
            {i \in w.scene : /\ Selectable(i)
                              /\ RectContainsRect(selection_rect, sceneBoundingRect(w, i))}
    IN  IF modifiers = ShiftModifier
        THEN toggle_each(w, items_to_process)
        ELSE select_each(clear_selection(w), items_to_process)

\* ------------------------------------------------- what the run records

NoPoint == <<0, 0>>

\* The record of the move is dropped: an operation other than update_move
\* came between start_move and the end of the move.
Disturbed(w) ==
    [w EXCEPT !.steady = FALSE, !.spos = [i \in Graphics |-> InitialPos(i)],
              !.ssel = {}, !.nupd = 0, !.lastpt = NoPoint]

Started(w, before, scene_pos) ==
    IF before.sel = {}
    THEN Disturbed(w)
    ELSE [w EXCEPT !.steady = TRUE, !.spos = before.pos, !.ssel = before.sel,
                   !.nupd = 0, !.lastpt = scene_pos]

Updated(w, before, scene_pos) ==
    IF before.moving /\ before.steady
    THEN [w EXCEPT !.nupd = IF before.nupd < 2 THEN before.nupd + 1 ELSE 2,
                   !.lastpt = scene_pos]
    ELSE Disturbed(w)

Ended(w, before) == IF before.moving /\ before.steady THEN w ELSE Disturbed(w)

Op(name, item, pt) == [op |-> name, item |-> item, pt |-> pt]

\* ------------------------------------------------------------ operations

AllInArena(w) == \A i \in Items : InArena(w.pos[i])

SelectItem(item, multi_select) ==
    /\ item \in scene_items
    /\ Apply(Disturbed(select_item(Fresh(World), item, multi_select)))
    /\ last_op' = Op(IF multi_select THEN "select_item_multi" ELSE "select_item",
                     item, NoPoint)
    /\ UNCHANGED canvas_vars

ToggleSelection(item) ==
    /\ item \in scene_items
    /\ Apply(Disturbed(toggle_selection(Fresh(World), item)))
    /\ last_op' = Op(IF /\ last_op.op \in {"toggle_selection", "toggle_selection_again"}
                        /\ last_op.item = item
                     THEN "toggle_selection_again"
                     ELSE "toggle_selection",
                     item, NoPoint)
    /\ UNCHANGED canvas_vars

DeselectItem(item) ==
    /\ item \in scene_items
    /\ Apply(Disturbed(deselect_item(Fresh(World), item)))
    /\ last_op' = Op("deselect_item", item, NoPoint)
    /\ UNCHANGED canvas_vars

ClearSelection ==
    /\ Apply(Disturbed(clear_selection(Fresh(World))))
    /\ last_op' = Op("clear_selection", 0, NoPoint)
    /\ UNCHANGED canvas_vars

StartMove(scene_pos) ==
    /\ \E r \in LastVisited(selected_items) :
          Apply(Started(start_move(Fresh(World), scene_pos, r), World, scene_pos))
    /\ last_op' = Op("start_move", 0, scene_pos)
    /\ UNCHANGED canvas_vars

UpdateMove(scene_pos) ==
    /\ AllInArena(update_move(Fresh(World), scene_pos))
    /\ Apply(Updated(update_move(Fresh(World), scene_pos), World, scene_pos))
    /\ last_op' = Op("update_move", 0, scene_pos)
    /\ UNCHANGED canvas_vars

FinishMove(scene_pos) ==
    /\ Apply(Ended(finish_move(Fresh(World), scene_pos), World))
    /\ last_op' = Op("finish_move", 0, scene_pos)
    /\ UNCHANGED canvas_vars

CancelMove ==
    /\ Apply(Ended(cancel_move(Fresh(World)), World))
    /\ last_op' = Op("cancel_move", 0, NoPoint)
    /\ UNCHANGED canvas_vars

KeyDelete ==
    /\ Apply(Disturbed(key_delete(Fresh(World))))
    /\ last_op' = Op("key_delete", 0, NoPoint)
    /\ UNCHANGED canvas_vars

KeySelectAll ==
    /\ Apply(Disturbed(key_select_all(Fresh(World))))
    /\ last_op' = Op("key_select_all", 0, NoPoint)
    /\ UNCHANGED canvas_vars

InitState ==
    /\ selected_items = {}
    /\ sm_is_moving = FALSE
    /\ move_start_pos = <<0, 0>>
    /\ original_positions = << >>
    /\ item_pos = [i \in Graphics |-> InitialPos(i)]
    /\ item_is_moving = [i \in Graphics |-> FALSE]
    /\ item_selected = [i \in Graphics |-> FALSE]
    /\ item_moved = << >>
    /\ selection_changed = << >>
    /\ last_op = Op("init", 0, NoPoint)
    /\ selection_before = {}
    /\ start_positions = [i \in Graphics |-> InitialPos(i)]
    /\ start_selection = {}
    /\ updates_since_start = 0
    /\ last_update_pos = NoPoint
    /\ move_undisturbed = FALSE
    /\ item_is_transforming = [i \in Items |-> FALSE]
    /\ item_active_handle = [i \in Items |-> NoHandle]
    /\ th_active_handle = [i \in Items |-> NoHandle]
    /\ th_start_rect = [i \in Items |-> None]
    /\ th_start_pos = [i \in Items |-> None]
    /\ active_tool = TOOL_SELECT
    /\ marquee_active = FALSE
    /\ marquee_origin = <<0, 0>>
    /\ marquee_rect = None
    /\ buttons_down = {}
    /\ mouse_grabber = 0
    /\ grab_left_down = <<0, 0>>
    /\ moving_initial = << >>
    /\ restarted_move = FALSE
    /\ empty_press = << >>
    /\ marquee_final = << >>
    /\ events = 0
    /\ th_start_aspect_ratio = [i \in Items |-> NoRatio]
    /\ th_handles = [i \in Items |-> << >>]
    /\ th_handles_cache = [i \in Items |-> << >>]
    /\ th_last_rect = [i \in Items |-> << >>]
    /\ prepare_order = ""
    /\ children = InitialChildren
    /\ children_before = InitialChildren
    /\ placement_mode = FALSE
    /\ placement_tool = None
    /\ preview_item = << >>
    /\ sw_active_tool = TOOL_SELECT
    /\ deleted = {}
    /\ raised = FALSE
    /\ last_arg = NoArg
    /\ zm_scale_factor = <<1, 1>>
    /\ view_scale = <<1, 1>>
    /\ canvas_scale_factor = <<1, 1>>
    /\ screens = {}
    /\ next_id = 1
    /\ new_screen_id = ""
    /\ screens_before = {}
    /\ sw_scale_factor = <<1, 1>>
    /\ zoom_changed = << >>
    /\ wheel_result = << >>
    /\ scale_before = <<<<1, 1>>, <<1, 1>>>>
    /\ item_is_hovering = [i \in Items |-> FALSE]
    /\ handle_hit = NoHandle
    /\ painted = {}
    /\ update_result = FALSE
    /\ applied_rect = << >>
    /\ session_rotation = [i \in Items |-> 0]
    /\ session_pos = [i \in Items |-> NoPoint]
    /\ session_snapped = [i \in Items |-> FALSE]
    /\ session_plain = [i \in Items |-> FALSE]
    /\ session_size = [i \in Items |-> << >>]
    /\ session_notified = [i \in Items |-> FALSE]
    /\ session_updates = [i \in Items |-> 0]
    /\ session_open = [i \in Items |-> FALSE]

\* Every element is a RectangleTool of the same size, not rotated.
InitRest ==
    /\ InitState
    /\ item_id \in IdAssignments
    /\ item_kind = [i \in Items |-> RECTANGLE]
    /\ item_size = [i \in Graphics |-> IF i = Background THEN ScreenSize ELSE InitialSize]
    /\ item_rotation = [i \in Items |-> 0]

\* A screen with transparent style: the scene holds the elements only.
Init ==
    /\ scene_items = Items
    /\ InitRest

\* A screen of either style: with the default style the scene holds the
\* background too.
InitCanvas ==
    /\ scene_items \in {Items, Graphics}
    /\ InitRest

Next ==
    \/ \E item \in Items, multi_select \in BOOLEAN : SelectItem(item, multi_select)
    \/ \E item \in Items : ToggleSelection(item)
    \/ \E item \in Items : DeselectItem(item)
    \/ ClearSelection
    \/ \E scene_pos \in MovePoints : StartMove(scene_pos)
    \/ \E scene_pos \in MovePoints : UpdateMove(scene_pos)
    \/ \E scene_pos \in MovePoints : FinishMove(scene_pos)
    \/ CancelMove
    \/ KeyDelete
    \/ KeySelectAll

Spec == Init /\ [][Next]_vars

\* --------------------------------------------------- pointer and tool events

\* Pointer positions (scene coordinates) of the mouse events: inside the first
\* item, on its right handle, on empty canvas below it, inside the second
\* item, and left of and above everything.
CanvasPoints == MovePoints \cup {<<250, 30>>, <<-10, -10>>}

Buttons == {LeftButton, RightButton}

Modifiers == {NoModifier, ShiftModifier, ControlModifier}

Tools == {TOOL_SELECT, TOOL_LINE}

\* One more event is delivered.
Delivered ==
    /\ events < MaxEvents
    /\ events' = events + 1

\* The selected item that has a handle at the point, 0 if there is none.
HandleOwner(w, scene_pos) ==
    LET owners == {i \in w.scene :
                      /\ w.qsel[i]
                      /\ handle_at(w, i, mapFromScene(w, i, scene_pos)) # NoHandle}
    IN  IF owners = {} THEN 0 ELSE CHOOSE i \in owners : \A j \in owners : j <= i

\* The Select branch of mousePressEvent up to the marquee.
press_select(w, scene_pos, modifiers, r) ==
    LET item == itemAt(w, scene_pos)
        w1 == handle_mouse_press(w, modifiers, item)
    IN  IF item # 0 /\ w1.qsel[item]
        THEN Started(start_move(w1, scene_pos, r), w1, scene_pos)
        ELSE Disturbed(w1)

\* ScreenCanvas.mousePressEvent with a tool that places nothing.  No button is
\* pressed inside the rectangle of an open marquee.
MousePress(scene_pos, button, modifiers) ==
    /\ Delivered
    /\ button \notin buttons_down
    /\ buttons_down' = buttons_down \cup {button}
    /\ last_op' = Op("mousePressEvent", HandleOwner(World, scene_pos), NoPoint)
    /\ IF active_tool = TOOL_SELECT
       THEN LET item == itemAt(World, scene_pos)
                w1 == handle_mouse_press(Fresh(World), modifiers, item)
                begins == button = LeftButton /\ item = 0
            IN  /\ ~(marquee_active /\ RectContainsPoint(marquee_rect, scene_pos))
                /\ \E r \in LastVisited(w1.sel) :
                      ApplyAll(press_select(Fresh(World), scene_pos, modifiers, r))
                /\ restarted_move' = (item # 0 /\ w1.qsel[item] /\ sm_is_moving)
                /\ marquee_active' = (begins \/ marquee_active)
                /\ marquee_origin' = IF begins THEN scene_pos ELSE marquee_origin
                /\ marquee_rect' = IF begins
                                   THEN NormalizedRect(scene_pos, scene_pos)
                                   ELSE marquee_rect
       ELSE /\ ApplyAll(Disturbed(QtScenePress(Fresh(World), scene_pos, button,
                                               modifiers, buttons_down \cup {button})))
            /\ restarted_move' = FALSE
            /\ UNCHANGED <<marquee_active, marquee_origin, marquee_rect>>
    /\ empty_press' = IF /\ active_tool = TOOL_SELECT
                         /\ button = LeftButton
                         /\ ElementAt(World, scene_pos) = 0
                      THEN <<scene_pos>>
                      ELSE << >>
    /\ marquee_final' = << >>
    /\ UNCHANGED <<item_id, item_kind, transform_record, side_records, other_records, active_tool>>

\* What mouseMoveEvent does to the selection manager and the items.
move_event(w, scene_pos, buttons) ==
    IF active_tool = TOOL_SELECT /\ marquee_active
    THEN Disturbed(w)
    ELSE IF active_tool = TOOL_SELECT /\ w.moving
         THEN Updated(update_move(w, scene_pos), w, scene_pos)
         ELSE Disturbed(QtSceneMove(w, scene_pos, buttons))

\* ScreenCanvas.mouseMoveEvent with a tool that places nothing.
MouseMove(scene_pos) ==
    /\ Delivered
    /\ AllInArena(move_event(Fresh(World), scene_pos, buttons_down))
    /\ ApplyAll(move_event(Fresh(World), scene_pos, buttons_down))
    /\ marquee_rect' = IF active_tool = TOOL_SELECT /\ marquee_active
                       THEN NormalizedRect(marquee_origin, scene_pos)
                       ELSE marquee_rect
    /\ last_op' = Op("mouseMoveEvent", 0, NoPoint)
    /\ restarted_move' = FALSE
    /\ empty_press' = << >>
    /\ marquee_final' = << >>
    /\ UNCHANGED <<item_id, item_kind, transform_record, side_records, other_records, active_tool, marquee_active,
                   marquee_origin, buttons_down>>

\* What mouseReleaseEvent does to the selection manager and the items;
\* buttons are those still held.
release_event(w, scene_pos, button, modifiers, buttons) ==
    IF active_tool = TOOL_SELECT /\ marquee_active
    THEN Disturbed(finalize_marquee(w, marquee_rect, modifiers))
    ELSE LET w1 == IF active_tool = TOOL_SELECT /\ w.moving
                   THEN Ended(finish_move(w, scene_pos), w)
                   ELSE Disturbed(w)
         IN  QtSceneRelease(w1, scene_pos, button, modifiers, buttons)

\* ScreenCanvas.mouseReleaseEvent.
MouseRelease(scene_pos, button, modifiers) ==
    /\ Delivered
    /\ button \in buttons_down
    /\ buttons_down' = buttons_down \ {button}
    /\ ApplyAll(release_event(Fresh(World), scene_pos, button, modifiers,
                              buttons_down \ {button}))
    /\ marquee_active' = (marquee_active /\ active_tool # TOOL_SELECT)
    /\ marquee_rect' = IF active_tool = TOOL_SELECT /\ marquee_active
                       THEN None
                       ELSE marquee_rect
    /\ last_op' = Op("mouseReleaseEvent", 0, NoPoint)
    /\ restarted_move' = FALSE
    /\ empty_press' = << >>
    /\ marquee_final' = IF active_tool = TOOL_SELECT /\ marquee_active
                        THEN <<marquee_rect, modifiers>>
                        ELSE << >>
    /\ UNCHANGED <<item_id, item_kind, transform_record, side_records, other_records, active_tool, marquee_origin>>

\* ScreenWidget.set_active_tool and ScreenCanvas.set_active_tool with a tool
\* that places nothing.
SetActiveTool(tool_name) ==
    /\ Delivered
    /\ active_tool' = tool_name
    /\ ApplyAll(Disturbed(Fresh(World)))
    /\ last_op' = Op("set_active_tool", 0, NoPoint)
    /\ restarted_move' = FALSE
    /\ empty_press' = << >>
    /\ marquee_final' = << >>
    /\ UNCHANGED <<item_id, item_kind, transform_record, side_records, other_records, marquee_active, marquee_origin,
                   marquee_rect, buttons_down>>

NextCanvas ==
    \/ \E scene_pos \in CanvasPoints, button \in Buttons, modifiers \in Modifiers :
          MousePress(scene_pos, button, modifiers)
    \/ \E scene_pos \in CanvasPoints : MouseMove(scene_pos)
    \/ \E scene_pos \in CanvasPoints, button \in Buttons, modifiers \in Modifiers :
          MouseRelease(scene_pos, button, modifiers)
    \/ \E tool_name \in Tools : SetActiveTool(tool_name)

SpecCanvas == InitCanvas /\ [][NextCanvas]_vars

\* ------------------------------------------- TransformHandler, on its own

\* The sizes a RectangleTool is created with (ElementData.size), the rotations
\* an element has before a session (half degrees), and the positions, local
\* to the item, the handler is called with.
StartSizes == {<<96, 48>>, <<4, 60>>}

StartRotations == {0, 15, 20}

LocalPoints == {<<96, 24>>, <<48, -24>>, <<96, 72>>, <<4, 24>>}

Handles == {TOP_LEFT, TOP, TOP_RIGHT, RIGHT, BOTTOM_RIGHT, BOTTOM, BOTTOM_LEFT, LEFT,
            ROTATION}

\* The element the calls are made on; the other elements stay as they are
\* created.
Transformed == CHOOSE i \in Items : TRUE

\* The element is of either class, and the others are rectangles; a
\* CircleTool has no "width" or "height" property until a resize writes them.
InitTransform ==
    /\ scene_items = Items
    /\ InitState
    /\ item_id = [i \in Items |-> i]
    /\ \E kind \in {RECTANGLE, CIRCLE} :
          item_kind = [i \in Items |-> IF i = Transformed THEN kind ELSE RECTANGLE]
    /\ \E size \in StartSizes :
          item_size = [i \in Graphics |->
                          IF i = Background THEN ScreenSize
                          ELSE IF i # Transformed THEN InitialSize
                          ELSE IF item_kind[i] = CIRCLE THEN << >> ELSE size]
    /\ \E rotation \in StartRotations :
          item_rotation = [i \in Items |-> IF i = Transformed THEN rotation ELSE 0]

Called ==
    /\ events < MaxCalls
    /\ events' = events + 1

transform_frame == <<item_id, item_kind, side_records, other_records, active_tool, marquee_active, marquee_origin,
                     marquee_rect, buttons_down, restarted_move, empty_press,
                     marquee_final>>

\* A tuple among the emitted ones carries the identifier of the element with
\* values before and after: item_moved(id, original, new) is the one signal
\* of SelectionManager, ScreenCanvas and the elements of that shape.
Carries(moved, item) ==
    \E i \in DOMAIN moved : moved[i][1] = get_item_id(item)

StartTransformAt(item, handle_id, pos) ==
    /\ Called
    /\ ApplyAll(start_transform_at(World, item, handle_id, pos))
    /\ update_result' = FALSE
    /\ applied_rect' = << >>
    /\ session_rotation' = [session_rotation EXCEPT ![item] = item_rotation[item]]
    /\ session_pos' = [session_pos EXCEPT ![item] = pos]
    /\ session_snapped' = [session_snapped EXCEPT ![item] = FALSE]
    /\ session_plain' = [session_plain EXCEPT ![item] = FALSE]
    /\ session_size' = [session_size EXCEPT ![item] = item_size[item]]
    /\ session_notified' = [session_notified EXCEPT ![item] = FALSE]
    /\ session_updates' = [session_updates EXCEPT ![item] = 0]
    /\ session_open' = [session_open EXCEPT ![item] = TRUE]
    /\ last_op' = Op("start_transform_at", item, pos)
    /\ UNCHANGED transform_frame

UpdateTransform(item, pos, modifiers) ==
    /\ Called
    /\ UpdateIsWhole(World, item, pos, modifiers)
    /\ ApplyAll(update_transform(World, item, pos, modifiers))
    /\ update_result' = update_transform_result(World, item)
    /\ applied_rect' = update_transform_rect(World, item, pos, modifiers)
    /\ session_snapped' = [session_snapped EXCEPT
                               ![item] = @ \/ modifiers = ShiftModifier]
    /\ session_plain' = [session_plain EXCEPT
                             ![item] = @ \/ modifiers # ShiftModifier]
    /\ session_notified' = [session_notified EXCEPT
                                ![item] = @ \/ Carries(update_transform(World, item, pos,
                                                                        modifiers).moved, item)]
    /\ session_updates' = [session_updates EXCEPT ![item] = IF @ < 2 THEN @ + 1 ELSE 2]
    /\ last_op' = Op(IF modifiers = ShiftModifier
                     THEN "update_transform_shift"
                     ELSE "update_transform",
                     item, pos)
    /\ UNCHANGED <<session_rotation, session_pos, session_size, session_open,
                   transform_frame>>

EndTransform(item) ==
    /\ Called
    /\ ApplyAll(end_transform(World, item))
    /\ session_open' = [session_open EXCEPT ![item] = FALSE]
    /\ session_notified' = [session_notified EXCEPT
                                ![item] = @ \/ Carries(end_transform(World, item).moved, item)]
    /\ last_op' = Op("end_transform", item, NoPoint)
    /\ UNCHANGED <<update_result, applied_rect, session_rotation, session_pos,
                   session_snapped, session_plain, session_size, session_updates,
                   transform_frame>>

NextTransform ==
    \/ \E handle_id \in Handles, pos \in LocalPoints :
          StartTransformAt(Transformed, handle_id, pos)
    \/ \E pos \in LocalPoints, modifiers \in {NoModifier, ShiftModifier} :
          UpdateTransform(Transformed, pos, modifiers)
    \/ EndTransform(Transformed)

SpecTransform == InitTransform /\ [][NextTransform]_vars


\* ----------------------------------------- rotation in small steps

\* Positions, local to a 96 x 48 rectangle with its centre at (48, 24), at
\* 0, 5.19, 10.30 and 45 degrees about the centre.
RotationPoints == {<<92, 24>>, <<92, 28>>, <<92, 32>>, <<92, 68>>}

\* The element is a RectangleTool of 96 x 48.
InitRotation ==
    /\ scene_items = Items
    /\ InitState
    /\ item_id = [i \in Items |-> i]
    /\ item_kind = [i \in Items |-> RECTANGLE]
    /\ item_size = [i \in Graphics |->
                      IF i = Background THEN ScreenSize
                      ELSE IF i # Transformed THEN InitialSize ELSE <<96, 48>>]
    /\ \E rotation \in StartRotations :
          item_rotation = [i \in Items |-> IF i = Transformed THEN rotation ELSE 0]

NextRotation ==
    \/ \E pos \in RotationPoints : StartTransformAt(Transformed, ROTATION, pos)
    \/ \E pos \in RotationPoints, modifiers \in {NoModifier, ShiftModifier} :
          UpdateTransform(Transformed, pos, modifiers)
    \/ EndTransform(Transformed)

SpecRotation == InitRotation /\ [][NextRotation]_vars


\* ------------------------------------------- calls on one drawing item

\* Points in the item's coordinates: on the RIGHT handle of a 96 x 48
\* rectangle, on the RIGHT handle of a 20 x 20 one, on the BOTTOM_RIGHT handle
\* of a 60 x 60 one, and on no handle of any of them.
ItemPoints == {<<100, 24>>, <<24, 10>>, <<64, 64>>, <<48, 30>>}

\* Property dictionaries update_properties is called with.
PropsInputs == {[width |-> 20, height |-> 20], [width |-> -6, height |-> 12],
                [color |-> 1]}

InitItem ==
    /\ scene_items = Items
    /\ InitState
    /\ item_id = [i \in Items |-> i]
    /\ \E kind \in {RECTANGLE, CIRCLE} :
          item_kind = [i \in Items |-> IF i = Transformed THEN kind ELSE RECTANGLE]
    /\ item_size = [i \in Graphics |->
                      IF i = Background THEN ScreenSize
                      ELSE IF i # Transformed THEN InitialSize
                      ELSE IF item_kind[i] = CIRCLE THEN << >> ELSE <<96, 48>>]
    /\ item_rotation = [i \in Items |-> 0]

item_frame == <<item_id, item_kind, transform_record, other_records, active_tool, marquee_active,
                marquee_origin, marquee_rect, buttons_down, restarted_move,
                empty_press, marquee_final>>

\* TransformHandler.handle_at.
HandleAt(item, pos) ==
    /\ Called
    /\ ApplyAll(update_handles(World, item))
    /\ handle_hit' = handle_at(World, item, pos)
    /\ last_op' = Op("handle_at", item, pos)
    /\ UNCHANGED <<item_is_hovering, painted, item_frame>>

UpdateProperties(item, props) ==
    /\ Called
    /\ ApplyAll(update_properties(World, item, props))
    /\ last_op' = Op(IF ChangesSize(props) THEN "update_properties_size"
                     ELSE "update_properties", item, NoPoint)
    /\ UNCHANGED <<side_records, item_frame>>

\* QGraphicsItem.setPos, and the itemChange it sends.
SetPos(item, pos) ==
    /\ Called
    /\ ApplyAll(itemChange(World, [World EXCEPT !.pos[item] = pos]))
    /\ last_op' = Op("setPos", item, pos)
    /\ UNCHANGED <<side_records, item_frame>>

\* TransformHandler.invalidate_cache.
InvalidateCache(item) ==
    /\ Called
    /\ ApplyAll(invalidate_cache(World, {item}))
    /\ last_op' = Op("invalidate_cache", item, NoPoint)
    /\ UNCHANGED <<side_records, item_frame>>

\* QGraphicsItem.setSelected.
SetSelected(item, selected) ==
    /\ Called
    /\ ApplyAll([World EXCEPT !.qsel[item] = selected])
    /\ last_op' = Op("setSelected", item, NoPoint)
    /\ UNCHANGED <<side_records, item_frame>>

\* BaseDrawingItem.mousePressEvent with the left button: on a handle of a
\* selected item it starts a transform, elsewhere it starts a move.
ItemPress(item, pos) ==
    /\ Called
    /\ ApplyAll(item_mousePressEvent(World, item, pos, LeftButton, NoModifier))
    /\ last_op' = Op("mousePressEvent", item, pos)
    /\ UNCHANGED <<side_records, item_frame>>

\* BaseDrawingItem.mouseReleaseEvent of the left button, away from the press.
ItemRelease(item) ==
    /\ Called
    /\ ApplyAll(item_mouseReleaseEvent(World, item, <<5, 5>>, LeftButton, NoModifier, {}))
    /\ last_op' = Op("mouseReleaseEvent", item, NoPoint)
    /\ UNCHANGED <<side_records, item_frame>>

\* BaseDrawingItem.hoverEnterEvent and hoverLeaveEvent.
Hover(item, entered) ==
    /\ Called
    /\ item_is_hovering' = [item_is_hovering EXCEPT ![item] = entered]
    /\ ApplyAll(World)
    /\ last_op' = Op("hover", item, NoPoint)
    /\ UNCHANGED <<handle_hit, painted, item_frame>>

\* BaseDrawingItem.paint.
Paint(item) ==
    /\ Called
    /\ ApplyAll(paint(World, item))
    /\ painted' = Decorations(World, item)
    /\ last_op' = Op("paint", item, NoPoint)
    /\ UNCHANGED <<item_is_hovering, handle_hit, item_frame>>

NextItem ==
    \/ \E pos \in ItemPoints : HandleAt(Transformed, pos)
    \/ \E props \in PropsInputs : UpdateProperties(Transformed, props)
    \/ SetPos(Transformed, <<1, 0>>)
    \/ InvalidateCache(Transformed)
    \/ \E selected \in BOOLEAN : SetSelected(Transformed, selected)
    \/ \E pos \in {<<100, 24>>, <<48, 30>>} : ItemPress(Transformed, pos)
    \/ ItemRelease(Transformed)
    \/ \E entered \in BOOLEAN : Hover(Transformed, entered)
    \/ Paint(Transformed)
    \/ StartTransformAt(Transformed, RIGHT, <<100, 24>>)
    \/ \E pos \in {<<100, 24>>, <<24, 24>>} :
          UpdateTransform(Transformed, pos, NoModifier)
    \/ EndTransform(Transformed)

SpecItem == InitItem /\ [][NextItem]_vars


\* ------------------------------------------------------------ ZoomManager

\* A scale is the fraction <<numerator, denominator>> in lowest terms, with a
\* positive denominator; NaN is the float that compares false with everything.
NaN == <<0, 0>>

RECURSIVE GCD(_, _)
GCD(a, b) == IF b = 0 THEN a ELSE GCD(b, a % b)

Fraction(n, d) ==
    IF d = 0 THEN NaN
    ELSE LET g == GCD(Abs(n), Abs(d))
             sign == IF d < 0 THEN -1 ELSE 1
         IN  <<sign * (n \div g), sign * (d \div g)>>

Times(a, b) == Fraction(a[1] * b[1], a[2] * b[2])
Over(a, b) == IF b[1] = 0 THEN NaN ELSE Fraction(a[1] * b[2], a[2] * b[1])

\* a < b of two floats.
Less(a, b) == a # NaN /\ b # NaN /\ a[1] * b[2] < b[1] * a[2]

\* Python's min(a, b) and max(a, b): the first argument unless the second
\* is smaller (larger).
min(a, b) == IF Less(b, a) THEN b ELSE a
max(a, b) == IF Less(a, b) THEN b ELSE a

min_scale == <<1, 10>>
max_scale == <<10, 1>>
zoom_step == <<6, 5>>

\* ZoomManager.set_scale without the clamp.
target_scale_unclamped(new_scale) == new_scale

\* ZoomManager.set_scale: the scale _apply_scale is called with.
target_scale(new_scale) == max(min_scale, min(new_scale, max_scale))

\* ZoomManager.zoom_in and zoom_out: the scale set_scale is called with.
zoom_in_scale(scale) == min(Times(scale, zoom_step), max_scale)
zoom_out_scale(scale) == max(Over(scale, zoom_step), min_scale)

\* ZoomManager._apply_scale, reached through set_scale: the view's transform
\* is reset and scaled, the scale is stored and emitted, and the canvas,
\* whose _on_zoom_changed is connected to the signal, stores it too.
SetScaleTo(new_scale) ==
    /\ zm_scale_factor' = target_scale(new_scale)
    /\ view_scale' = target_scale(new_scale)
    /\ canvas_scale_factor' = target_scale(new_scale)
    /\ zoom_changed' = <<target_scale(new_scale)>>
    /\ scale_before' = <<zm_scale_factor, view_scale>>

\* handle_wheel_event zooming whatever the modifiers.
WheelZooms(modifiers) == TRUE

\* handle_wheel_event: modifiers & ControlModifier.
WheelIsZoom(modifiers) == modifiers = ControlModifier

\* Scales set_scale is called with: below, at and over the limits, and NaN.
ScaleInputs == {<<-1, 1>>, <<0, 1>>, <<1, 20>>, <<1, 8>>, <<9, 1>>, <<25, 1>>, NaN}

\* event.angleDelta().y() of a wheel event: a notch either way, and a wheel
\* turned sideways.
WheelDeltas == {-120, 0, 120}

\* What the calls of ZoomManager leave alone.
InZoomFrame ==
    UNCHANGED <<selected_items, sm_is_moving, move_start_pos, original_positions,
                item_pos, item_is_moving, item_selected, scene_items,
                item_moved, selection_changed, selection_before,
                start_positions, start_selection, updates_since_start,
                last_update_pos, move_undisturbed,
                item_id, item_size, item_is_transforming, item_active_handle,
                th_active_handle, th_start_rect, th_start_pos, active_tool,
                marquee_active, marquee_origin, marquee_rect, buttons_down,
                mouse_grabber, grab_left_down, moving_initial, restarted_move,
                empty_press, marquee_final, item_kind, item_rotation,
                th_start_aspect_ratio, transform_record, th_handles,
                th_handles_cache, th_last_rect, prepare_order, side_records,
                screen_record, service_record>>

ZoomIn ==
    /\ Called
    /\ SetScaleTo(zoom_in_scale(zm_scale_factor))
    /\ last_op' = Op("zoom_in", 0, NoPoint)
    /\ last_arg' = NoArg
    /\ UNCHANGED wheel_result
    /\ UNCHANGED sw_scale_factor
    /\ InZoomFrame

ZoomOut ==
    /\ Called
    /\ SetScaleTo(zoom_out_scale(zm_scale_factor))
    /\ last_op' = Op("zoom_out", 0, NoPoint)
    /\ last_arg' = NoArg
    /\ UNCHANGED wheel_result
    /\ UNCHANGED sw_scale_factor
    /\ InZoomFrame

ZoomTo100 ==
    /\ Called
    /\ SetScaleTo(<<1, 1>>)
    /\ last_op' = Op("zoom_to_100", 0, NoPoint)
    /\ last_arg' = NoArg
    /\ UNCHANGED wheel_result
    /\ UNCHANGED sw_scale_factor
    /\ InZoomFrame

SetScale(new_scale) ==
    /\ Called
    /\ SetScaleTo(new_scale)
    /\ last_op' = Op("set_scale", 0, new_scale)
    /\ last_arg' = NoArg
    /\ UNCHANGED wheel_result
    /\ UNCHANGED sw_scale_factor
    /\ InZoomFrame

\* ZoomManager.handle_wheel_event.
HandleWheelEvent(delta, modifiers) ==
    /\ Called
    /\ IF WheelIsZoom(modifiers)
       THEN /\ SetScaleTo(IF delta > 0
                          THEN zoom_in_scale(zm_scale_factor)
                          ELSE zoom_out_scale(zm_scale_factor))
            /\ wheel_result' = <<TRUE>>
       ELSE /\ wheel_result' = <<FALSE>>
            /\ zoom_changed' = << >>
            /\ scale_before' = <<zm_scale_factor, view_scale>>
            /\ UNCHANGED <<zm_scale_factor, view_scale, canvas_scale_factor>>
    /\ last_op' = Op("handle_wheel_event", 0, NoPoint)
    /\ last_arg' = [NoArg EXCEPT !.modifiers = modifiers, !.delta = delta]
    /\ UNCHANGED sw_scale_factor
    /\ InZoomFrame

NextZoom ==
    \/ ZoomIn
    \/ ZoomOut
    \/ ZoomTo100
    \/ \E new_scale \in ScaleInputs : SetScale(new_scale)
    \/ \E delta \in WheelDeltas, modifiers \in {NoModifier, ShiftModifier, ControlModifier} :
          HandleWheelEvent(delta, modifiers)

SpecZoom == Init /\ [][NextZoom]_vars


\* ------------------------------------- the scale factors of the screen

\* ScreenCanvas.set_scale_factor: the factor is stored and set on the view,
\* then handed to the zoom manager, whose set_scale clamps it, sets it on
\* the view and emits it back to the canvas.
CanvasSetScaleFactor(scale_factor) ==
    /\ Called
    /\ SetScaleTo(scale_factor)
    /\ last_op' = Op("set_scale_factor", 0, scale_factor)
    /\ last_arg' = NoArg
    /\ UNCHANGED <<wheel_result, sw_scale_factor>>
    /\ InZoomFrame

\* ScreenWidget.zoom_in: min(self._scale_factor * 1.2, 10.0) is stored and
\* handed to the canvas.
WidgetZoomIn ==
    /\ Called
    /\ sw_scale_factor' = min(Times(sw_scale_factor, <<6, 5>>), <<10, 1>>)
    /\ SetScaleTo(min(Times(sw_scale_factor, <<6, 5>>), <<10, 1>>))
    /\ last_op' = Op("widget_zoom_in", 0, NoPoint)
    /\ last_arg' = NoArg
    /\ UNCHANGED wheel_result
    /\ InZoomFrame

\* ScreenWidget.zoom_out: max(self._scale_factor / 1.2, 0.1).
WidgetZoomOut ==
    /\ Called
    /\ sw_scale_factor' = max(Over(sw_scale_factor, <<6, 5>>), <<1, 10>>)
    /\ SetScaleTo(max(Over(sw_scale_factor, <<6, 5>>), <<1, 10>>))
    /\ last_op' = Op("widget_zoom_out", 0, NoPoint)
    /\ last_arg' = NoArg
    /\ UNCHANGED wheel_result
    /\ InZoomFrame

NextScales ==
    \/ NextZoom
    \/ \E scale_factor \in ScaleInputs : CanvasSetScaleFactor(scale_factor)
    \/ WidgetZoomIn
    \/ WidgetZoomOut

SpecScales == Init /\ [][NextScales]_vars


\* ------------------------------------- placement, children, scene reload

\* The bound on the handlers run on the screen.
MaxScreenEvents == 5

\* The bound on the children the screen holds.
MaxChildren == 3

PlacementTools == {TOOL_BUTTON, TOOL_RECTANGLE, TOOL_CIRCLE, TOOL_POLYGON, TOOL_TEXT}

\* Pointer positions in the scene, in half units: (50.5, 30.5) and (-10.5, 20).
ClickPoints == {<<101, 61>>, <<-21, 40>>}

\* int(x) of a coordinate given in half units: the whole part, towards zero.
int(half) == IF half >= 0 THEN half \div 2 ELSE -((-half) \div 2)

\* {"x": int(scene_pos.x()), "y": int(scene_pos.y())}.
IntPoint(scene_pos) == <<int(scene_pos[1]), int(scene_pos[2])>>

\* The size _place_button and _place_drawing_object give a new element.
DefaultSize(tool_type) ==
    CASE tool_type = TOOL_BUTTON -> <<100, 40>>
      [] tool_type = TOOL_RECTANGLE -> <<100, 60>>
      [] tool_type = TOOL_CIRCLE -> <<60, 60>>
      [] tool_type = TOOL_POLYGON -> <<100, 86>>
      [] tool_type = TOOL_TEXT -> <<100, 20>>

\* _place_button called whatever the placement tool.
PlacedAsButton(kids, tool_type, scene_pos) ==
    Child(TOOL_BUTTON, Len(kids) + 1, IntPoint(scene_pos), DefaultSize(TOOL_BUTTON))

\* _place_button and _place_drawing_object: the record appended; its number
\* is the number of children plus one.
Placed(kids, tool_type, scene_pos) ==
    Child(tool_type, Len(kids) + 1, IntPoint(scene_pos), DefaultSize(tool_type))

\* ScreenService._perform_remove_child.
remove_child(kids, instance_id) ==
    SelectSeq(kids, LAMBDA child : child.instance_id # instance_id)

\* ScreenCanvas.set_active_tool that keeps the preview, as
\* ScreenWidget.set_active_tool does.
PreviewAfterToolKept(tool_name, preview) == preview

\* ScreenCanvas.set_active_tool: the preview is cleared with a tool that
\* places nothing.
PreviewAfterTool(tool_name, preview) ==
    IF tool_name \in PlacementTools THEN preview ELSE << >>

\* ScreenWidget.set_active_tool, which calls ScreenCanvas.set_active_tool;
\* preview is the preview item the call finds.
set_active_tool(tool_name, preview) ==
    /\ sw_active_tool' = tool_name
    /\ active_tool' = tool_name
    /\ placement_mode' = (tool_name \in PlacementTools)
    /\ placement_tool' = IF tool_name \in PlacementTools THEN tool_name ELSE None
    /\ preview_item' = PreviewAfterTool(tool_name, preview)

\* ScreenCanvas.update_screen_data: scene.clear() deletes every item of the
\* scene and the background is created anew; the selection manager keeps what
\* it holds.  The items created for the children are not followed.
update_screen_data(w) == [w EXCEPT !.scene = {Background}]

\* One more handler is run.
Happened ==
    /\ events < MaxScreenEvents
    /\ events' = events + 1

screen_frame == <<item_id, item_kind, transform_record, side_records, zoom_record,
                  service_record,
                  marquee_active, marquee_origin, marquee_rect, buttons_down,
                  restarted_move, empty_press, marquee_final>>

\* ScreenWidget.set_active_tool; last_arg keeps the tool and the preview item
\* the call found.
SetTool(tool_name) ==
    /\ Happened
    /\ set_active_tool(tool_name, preview_item)
    /\ ApplyAll(Disturbed(Fresh(World)))
    /\ children_before' = children
    /\ last_arg' = [NoArg EXCEPT !.tool = tool_name, !.preview = preview_item]
    /\ last_op' = Op("set_active_tool", 0, NoPoint)
    /\ UNCHANGED <<children, deleted, raised, screen_frame>>

\* ScreenCanvas.mouseMoveEvent with a placement tool: the button tool shows a
\* preview, created at the whole part of the pointer position and moved to
\* the pointer position afterwards.
PlacementMove(scene_pos) ==
    /\ Happened
    /\ active_tool # TOOL_SELECT
    /\ preview_item' = IF placement_mode /\ placement_tool = TOOL_BUTTON
                       THEN IF preview_item = << >>
                            THEN <<<<2 * int(scene_pos[1]), 2 * int(scene_pos[2])>>>>
                            ELSE <<scene_pos>>
                       ELSE preview_item
    /\ ApplyAll(Disturbed(Fresh(World)))
    /\ children_before' = children
    /\ last_arg' = NoArg
    /\ last_op' = Op("mouseMoveEvent", 0, scene_pos)
    /\ UNCHANGED <<children, placement_mode, placement_tool, sw_active_tool,
                   active_tool, deleted, raised, screen_frame>>

\* ScreenCanvas.mousePressEvent in placement mode: the element is appended,
\* notify_screen_update reloads the scene, the preview is cleared and the
\* parent widget sets the Select tool.
PlacementPress(scene_pos) ==
    /\ Happened
    /\ placement_mode
    /\ active_tool # TOOL_SELECT
    /\ Len(children) < MaxChildren
    /\ children' = Append(children, Placed(children, placement_tool, scene_pos))
    /\ children_before' = children
    /\ last_arg' = [NoArg EXCEPT !.tool = placement_tool, !.preview = preview_item]
    /\ deleted' = deleted \cup (scene_items \cap Items)
    /\ ApplyAll(Disturbed(update_screen_data(Fresh(World))))
    /\ set_active_tool(TOOL_SELECT, << >>)
    /\ last_op' = Op("place", 0, scene_pos)
    /\ UNCHANGED <<raised, screen_frame>>

\* _perform_remove_child with the instance id of the n-th child.
RemoveChild(n) ==
    /\ Happened
    /\ n <= Len(children)
    /\ children' = remove_child(children, children[n].instance_id)
    /\ children_before' = children
    /\ last_arg' = NoArg
    /\ ApplyAll(Disturbed(Fresh(World)))
    /\ last_op' = Op("remove_child", 0, NoPoint)
    /\ UNCHANGED <<placement_mode, placement_tool, preview_item, sw_active_tool,
                   active_tool, deleted, raised, screen_frame>>

\* ScreenWidget._on_screen_modified: the scene is reloaded, and the preview
\* is cleared with it.
ScreenModified ==
    /\ Happened
    /\ deleted' = deleted \cup (scene_items \cap Items)
    /\ preview_item' = << >>
    /\ ApplyAll(Disturbed(update_screen_data(Fresh(World))))
    /\ children_before' = children
    /\ last_arg' = NoArg
    /\ last_op' = Op("screen_modified", 0, NoPoint)
    /\ UNCHANGED <<children, placement_mode, placement_tool, sw_active_tool,
                   active_tool, raised, screen_frame>>

moves_frame == <<children, placement_mode, placement_tool, preview_item,
                 sw_active_tool, active_tool, deleted, screen_frame>>

\* select_item on an item of the scene.
ScreenSelect(item, multi_select) ==
    /\ Happened
    /\ item \in scene_items
    /\ ApplyAll(Disturbed(select_item(Fresh(World), item, multi_select)))
    /\ children_before' = children
    /\ last_arg' = NoArg
    /\ last_op' = Op("select_item", item, NoPoint)
    /\ UNCHANGED <<raised, moves_frame>>

\* start_move on a selection of items that all exist.
ScreenStartMove(scene_pos) ==
    /\ Happened
    /\ selected_items \cap deleted = {}
    /\ \E r \in LastVisited(selected_items) :
          ApplyAll(Disturbed(start_move(Fresh(World), scene_pos, r)))
    /\ children_before' = children
    /\ last_arg' = NoArg
    /\ last_op' = Op("start_move", 0, scene_pos)
    /\ UNCHANGED <<raised, moves_frame>>

\* _get_item_id calls item.data(0), and setPos and pos() are called on the
\* item: on an item whose C++ object is deleted each raises RuntimeError,
\* which update_move, finish_move and cancel_move do not catch.
Raises(w) == w.moving /\ w.sel \cap deleted # {}

\* The state a handler that raised leaves: it had run over the items the
\* iteration of the set visited before the deleted one, and had not reached
\* the statements after the loop.
Interrupted(w, after) ==
    [after EXCEPT !.sel = w.sel, !.moving = w.moving, !.orig = w.orig]

Visited(w, done) == [w EXCEPT !.sel = done]

ScreenUpdateMove(scene_pos) ==
    /\ Happened
    /\ AllInArena(update_move(Fresh(World), scene_pos))
    /\ IF Raises(World)
       THEN \E done \in SUBSET (selected_items \ deleted) :
               ApplyAll(Disturbed(Interrupted(Fresh(World),
                   update_move(Visited(Fresh(World), done), scene_pos))))
       ELSE ApplyAll(Disturbed(update_move(Fresh(World), scene_pos)))
    /\ raised' = Raises(World)
    /\ children_before' = children
    /\ last_arg' = NoArg
    /\ last_op' = Op("update_move", 0, scene_pos)
    /\ UNCHANGED moves_frame

ScreenFinishMove(scene_pos) ==
    /\ Happened
    /\ IF Raises(World)
       THEN \E done \in SUBSET (selected_items \ deleted) :
               ApplyAll(Disturbed(Interrupted(Fresh(World),
                   finish_move(Visited(Fresh(World), done), scene_pos))))
       ELSE ApplyAll(Disturbed(finish_move(Fresh(World), scene_pos)))
    /\ raised' = Raises(World)
    /\ children_before' = children
    /\ last_arg' = NoArg
    /\ last_op' = Op("finish_move", 0, scene_pos)
    /\ UNCHANGED moves_frame

ScreenCancelMove ==
    /\ Happened
    /\ IF Raises(World)
       THEN \E done \in SUBSET (selected_items \ deleted) :
               ApplyAll(Disturbed(Interrupted(Fresh(World),
                   cancel_move(Visited(Fresh(World), done)))))
       ELSE ApplyAll(Disturbed(cancel_move(Fresh(World))))
    /\ raised' = Raises(World)
    /\ children_before' = children
    /\ last_arg' = NoArg
    /\ last_op' = Op("cancel_move", 0, NoPoint)
    /\ UNCHANGED moves_frame

\* handle_key_press with Key_Delete.
ScreenKeyDelete ==
    /\ Happened
    /\ ApplyAll(Disturbed(key_delete(Fresh(World))))
    /\ children_before' = children
    /\ last_arg' = NoArg
    /\ last_op' = Op("key_delete", 0, NoPoint)
    /\ UNCHANGED <<raised, moves_frame>>

InitScreen ==
    /\ scene_items = Graphics
    /\ InitState
    /\ item_id = [i \in Items |-> i]
    /\ item_kind = [i \in Items |-> RECTANGLE]
    /\ item_size = [i \in Graphics |-> IF i = Background THEN ScreenSize ELSE InitialSize]
    /\ item_rotation = [i \in Items |-> 0]

NextScreen ==
    \/ \E tool_name \in PlacementTools \cup {TOOL_SELECT} : SetTool(tool_name)
    \/ \E scene_pos \in ClickPoints : PlacementMove(scene_pos)
    \/ \E scene_pos \in ClickPoints : PlacementPress(scene_pos)
    \/ \E n \in 1..MaxChildren : RemoveChild(n)
    \/ ScreenModified
    \/ \E item \in Items, multi_select \in BOOLEAN : ScreenSelect(item, multi_select)
    \/ \E scene_pos \in MovePoints : ScreenStartMove(scene_pos)
    \/ \E scene_pos \in MovePoints : ScreenUpdateMove(scene_pos)
    \/ \E scene_pos \in MovePoints : ScreenFinishMove(scene_pos)
    \/ ScreenCancelMove
    \/ ScreenKeyDelete

SpecScreen == InitScreen /\ [][NextScreen]_vars


\* ------------------------------------------------------- ScreenService

\* Screen identifiers: keys a project file holds and identifiers a caller
\* passes.  "02" and "home" are keys no _get_new_screen_id returns.
ScreenIds == {"1", "2", "3", "02", "home"}

\* str.isdigit() of an identifier.
isdigit(screen_id) == screen_id # "home"

\* int(screen_id) of an identifier of digits.
int_str(screen_id) ==
    CASE screen_id = "1" -> 1
      [] screen_id = "2" -> 2
      [] screen_id = "3" -> 3
      [] screen_id = "02" -> 2

\* str(n) of a positive number below ten.
str(n) == <<"1", "2", "3", "4", "5", "6", "7", "8", "9">>[n]

\* The data of a screen, which the model tells apart by a letter.
ScreenData == {"a", "b"}

\* The keys of _screens.
Keys(dict) == {pair[1] : pair \in dict}

\* _screens[screen_id] = data.
Stored(dict, screen_id, data) ==
    {pair \in dict : pair[1] # screen_id} \cup {<<screen_id, data>>}

\* The "screens" dictionaries of the project files loaded.
Projects == {{}, {<<"2", "a">>}, {<<"1", "a">>, <<"3", "b">>},
             {<<"02", "a">>, <<"home", "b">>}, {<<"home", "a">>}}

Largest(numbers) == CHOOSE n \in numbers : \A m \in numbers : m <= n

\* The counter load_from_project leaves: one more than the largest of the
\* keys of digits; the counter it found if the project has no screens or no
\* key of digits.
next_id_after_load(dict, counter) ==
    IF dict = {} \/ \A k \in Keys(dict) : ~isdigit(k)
    THEN counter
    ELSE Largest({int_str(k) : k \in {d \in Keys(dict) : isdigit(d)}}) + 1

\* What the calls of ScreenService leave alone.
InServiceFrame ==
    UNCHANGED <<selected_items, sm_is_moving, move_start_pos, original_positions,
                item_pos, item_is_moving, item_selected, scene_items,
                item_moved, selection_changed, selection_before,
                start_positions, start_selection, updates_since_start,
                last_update_pos, move_undisturbed,
                item_id, item_size, item_is_transforming, item_active_handle,
                th_active_handle, th_start_rect, th_start_pos, active_tool,
                marquee_active, marquee_origin, marquee_rect, buttons_down,
                mouse_grabber, grab_left_down, moving_initial, restarted_move,
                empty_press, marquee_final, item_kind, item_rotation,
                th_start_aspect_ratio, transform_record, th_handles,
                th_handles_cache, th_last_rect, prepare_order, side_records,
                screen_record, zoom_record, last_arg>>

\* load_from_project: _screens is replaced; with no key of digits among the
\* keys of a project that has screens, max() of nothing raises ValueError and
\* _next_id stays.
LoadFromProject(project) ==
    /\ Called
    /\ screens' = project
    /\ next_id' = next_id_after_load(project, next_id)
    /\ new_screen_id' = ""
    /\ screens_before' = screens
    /\ last_op' = Op("load_from_project", 0, NoPoint)
    /\ InServiceFrame

ClearAll ==
    /\ Called
    /\ screens' = {}
    /\ next_id' = 1
    /\ new_screen_id' = ""
    /\ screens_before' = screens
    /\ last_op' = Op("clear_all", 0, NoPoint)
    /\ InServiceFrame

\* _perform_add_screen without a screen id: _get_new_screen_id gives it.
AddScreen(screen_data) ==
    /\ Called
    /\ screens' = Stored(screens, str(next_id), screen_data)
    /\ next_id' = next_id + 1
    /\ new_screen_id' = str(next_id)
    /\ screens_before' = screens
    /\ last_op' = Op("add_screen", 0, NoPoint)
    /\ InServiceFrame

\* _perform_add_screen with a screen id.
AddScreenWithId(screen_data, screen_id) ==
    /\ Called
    /\ screens' = Stored(screens, screen_id, screen_data)
    /\ new_screen_id' = ""
    /\ screens_before' = screens
    /\ last_op' = Op("add_screen_with_id", 0, NoPoint)
    /\ UNCHANGED next_id
    /\ InServiceFrame

RemoveScreen(screen_id) ==
    /\ Called
    /\ screens' = {pair \in screens : pair[1] # screen_id}
    /\ new_screen_id' = ""
    /\ screens_before' = screens
    /\ last_op' = Op("remove_screen", 0, NoPoint)
    /\ UNCHANGED next_id
    /\ InServiceFrame

NextService ==
    \/ \E project \in Projects : LoadFromProject(project)
    \/ ClearAll
    \/ \E screen_data \in ScreenData : AddScreen(screen_data)
    \/ \E screen_data \in ScreenData, screen_id \in ScreenIds :
          AddScreenWithId(screen_data, screen_id)
    \/ \E screen_id \in ScreenIds : RemoveScreen(screen_id)

SpecService == Init /\ [][NextService]_vars


\* ------------------------------------------------------- PropertyEditor

\* The pages of the stacked widget: the two made by the constructor, and the
\* editors set_current_object adds as a third.
BLANK_PAGE == "blank_page"
MULTI_SELECT_PAGE == "multi_select_page"
BUTTON_EDITOR == "button_editor"
GENERIC_EDITOR == "generic_editor"

\* The values current_object_id takes: None, an identifier, or the dictionary
\* {'instance_id': identifier} (wrapped).
NoObject == [wrapped |-> FALSE, known |-> FALSE, id |-> 0]
PlainId(id) == [wrapped |-> FALSE, known |-> TRUE, id |-> id]
WrappedId(id) == [wrapped |-> TRUE, known |-> TRUE, id |-> id]

\* What ScreenCanvas emits as selection_changed for a selection_changed of the
\* SelectionManager: one dictionary with the key 'instance_id' per identifier.
relay_selection(ids) ==
    [i \in DOMAIN ids |-> [keys |-> {"instance_id"}, instance_id |-> PlainId(ids[i]),
                           type |-> None]]

\* The editor made for an object type, BLANK_PAGE if none is.
editor_of(object_type) ==
    IF object_type = "button" THEN BUTTON_EDITOR
    ELSE IF object_type \in {"rectangle", "circle", "polygon", "text"}
         THEN GENERIC_EDITOR
         ELSE BLANK_PAGE

\* The end of set_current_object, with selection_data a dictionary.
show_object(selection_data) ==
    [page |-> IF "screen_id" \in selection_data.keys THEN BLANK_PAGE
              ELSE IF "type" \in selection_data.keys
                   THEN editor_of(selection_data.type)
                   ELSE BLANK_PAGE,
     current_object_id |-> IF "instance_id" \in selection_data.keys
                           THEN selection_data.instance_id
                           ELSE NoObject]

\* A list of one dictionary: selection_data becomes
\* {'instance_id': selection_data[0]}, the dictionary inside a dictionary.
wrap_single(entry) ==
    [keys |-> {"instance_id"}, instance_id |-> WrappedId(entry.instance_id.id),
     type |-> None]

\* set_current_object with a list, which is what ScreenCanvas sends: the
\* page shown and current_object_id.
set_current_object(selection_data) ==
    IF DOMAIN selection_data = {}
    THEN [page |-> BLANK_PAGE, current_object_id |-> NoObject]
    ELSE IF Cardinality(DOMAIN selection_data) > 1
         THEN [page |-> MULTI_SELECT_PAGE, current_object_id |-> NoObject]
         ELSE show_object(wrap_single(
                  selection_data[CHOOSE i \in DOMAIN selection_data : TRUE]))

\* The page and the object the editor shows after the last selection_changed
\* of the SelectionManager.
ShownToEditor == set_current_object(relay_selection(selection_changed))


\* ------------------------------------------------------------------ claims

\* C1: the drag-start snapshot is non-empty exactly when a move is in
\* progress, and it is empty right after finish_move or cancel_move.
C1_SnapshotIffMoving ==
    /\ (DOMAIN original_positions # {}) <=> sm_is_moving
    /\ last_op.op \in {"finish_move", "cancel_move"} => DOMAIN original_positions = {}

\* A move that was started, updated and then finished: the snapshot is gone.
C1_Witness ==
    /\ last_op.op = "finish_move"
    /\ move_undisturbed
    /\ updates_since_start = 1
    /\ DOMAIN original_positions = {}
    /\ ~sm_is_moving

\* The displacement of the finished move: the finish point minus the start point.
FinishDelta == PSub(last_op.pt, move_start_pos)

\* C2: start_move(p0), update_move(p0+d), finish_move(p0+d) on a selection of
\* n elements leaves every selected element at its own start position + d and
\* emits exactly n item_moved tuples, one per selected element, each carrying
\* (the element's identifier, its start position, its start position + d).
C2_MultiMove ==
    (/\ last_op.op = "finish_move"
     /\ move_undisturbed
     /\ updates_since_start = 1
     /\ last_update_pos = last_op.pt)
    => /\ \A i \in start_selection :
             item_pos[i] = PAdd(start_positions[i], FinishDelta)
       /\ DOMAIN item_moved = start_selection
       /\ \A i \in start_selection :
             item_moved[i] = <<get_item_id(i), start_positions[i],
                               PAdd(start_positions[i], FinishDelta)>>

\* C3: cancel_move during a move restores every selected element to the
\* position it had when start_move was called, emits no item_moved tuple and
\* ends the move, for any number of update_move calls in between.
C3_CancelRestores ==
    (last_op.op = "cancel_move" /\ move_undisturbed)
    => /\ \A i \in start_selection : item_pos[i] = start_positions[i]
       /\ DOMAIN item_moved = {}
       /\ ~sm_is_moving

\* C7: after start_move(p0) and update_move(p1), ..., update_move(pn), every
\* element selected at start_move is at its start position + (pn - p0).
C7_UpdateFromSnapshot ==
    (last_op.op = "update_move" /\ move_undisturbed /\ sm_is_moving)
    => \A i \in start_selection :
          item_pos[i] = PAdd(start_positions[i], PSub(last_op.pt, move_start_pos))

\* C8: after finish_move or cancel_move returns no element carries the
\* mid-move flag, whatever selection changes happened during the move.
C8_NoFlagAfterMove ==
    last_op.op \in {"finish_move", "cancel_move"}
    => \A i \in Items : ~item_is_moving[i]

\* C9: select_item(item, False) leaves the selection equal to {item};
\* select_item(item, True) leaves it equal to the previous selection plus item.
C9_SelectItem ==
    /\ last_op.op = "select_item" => selected_items = {last_op.item}
    /\ last_op.op = "select_item_multi"
          => selected_items = selection_before \cup {last_op.item}

\* select_item without multi_select replaced a selection of other elements.
C9_Witness ==
    /\ last_op.op = "select_item"
    /\ selection_before # {}
    /\ last_op.item \notin selection_before
    /\ selected_items = {last_op.item}

\* C10: toggle_selection(e) followed by toggle_selection(e) leaves the
\* selection set as it was before the first of the two.
C10_ToggleTwice ==
    [][(/\ last_op.op \in {"toggle_selection", "toggle_selection_again"}
        /\ last_op'.op = "toggle_selection_again"
        /\ last_op'.item = last_op.item)
       => selected_items' = selection_before]_vars

\* The second of two toggles of the same element has run, and it put the
\* element back into a selection that holds another element too.
C10_Witness ==
    /\ last_op.op = "toggle_selection_again"
    /\ last_op.item \in selected_items
    /\ last_op.item \notin selection_before
    /\ selection_before # {}

\* C4: at no reachable state are a multi-element move in progress and a
\* resize/rotate transform session on any element both true, for any sequence
\* of pointer-down, pointer-move, pointer-up and tool-switch events.
C4_MoveExcludesTransform ==
    ~(sm_is_moving /\ \E i \in Items : th_active_handle[i] # NoHandle)

\* C5: in Select mode, a pointer-down inside a handle region of an element
\* that is already selected starts a transform session on that element and
\* does not start a move, change the selection, or begin a marquee.
C5_HandlePressStartsTransform ==
    (/\ last_op.op = "mousePressEvent"
     /\ last_op.item # 0
     /\ active_tool = TOOL_SELECT
     /\ buttons_down = {LeftButton})
    => /\ th_active_handle[last_op.item] # NoHandle
       /\ ~move_undisturbed
       /\ selected_items = selection_before
       /\ ~marquee_active

\* C6: for every sequence of canvas pointer events start_move is never
\* invoked while a move is already in progress.
C6_NoStartDuringMove == ~restarted_move

\* The elements of the scene that lie, with every edge, inside the rectangle.
WhollyInside(rect) ==
    {i \in scene_items \cap Items :
        /\ rect[1] <= item_pos[i][1]
        /\ item_pos[i][1] + item_size[i][1] <= rect[3]
        /\ rect[2] <= item_pos[i][2]
        /\ item_pos[i][2] + item_size[i][2] <= rect[4]}

\* C11: when a marquee is finalized with no modifier held, the selection is
\* exactly the set of elements whose whole scene bounding rectangle is inside
\* the marquee rectangle; an element partly outside, and an element selected
\* before but outside, is not selected.
C11_MarqueeSelectsContained ==
    (marquee_final # << >> /\ marquee_final[2] = NoModifier)
    => selected_items = WhollyInside(marquee_final[1])

\* A marquee without modifier selected one element and dropped another that
\* was selected before it and lies outside.
C11_Witness ==
    /\ marquee_final # << >>
    /\ marquee_final[2] = NoModifier
    /\ selected_items # {}
    /\ selection_before \ selected_items # {}
    /\ selection_before \ selected_items \subseteq Items \ WhollyInside(marquee_final[1])

\* C12: when a marquee is finalized with Shift or Control held, every element
\* wholly inside has its membership toggled and every other element keeps the
\* membership it had before.
C12_MarqueeModifierToggles ==
    (marquee_final # << >> /\ marquee_final[2] \in {ShiftModifier, ControlModifier})
    => selected_items =
          (selection_before \ WhollyInside(marquee_final[1]))
             \cup (WhollyInside(marquee_final[1]) \ selection_before)

\* C13: in Select mode a left press at a point no selectable element covers
\* begins a marquee (origin recorded, marquee active, rectangle added), also
\* on a screen that has a background rectangle.
C13_EmptyPressBeginsMarquee ==
    empty_press # << >>
    => /\ marquee_active
       /\ marquee_origin = empty_press[1]
       /\ marquee_rect = <<empty_press[1][1], empty_press[1][2],
                           empty_press[1][1], empty_press[1][2]>>

\* The last call was an update_transform that resized the element.
ResizeUpdated ==
    /\ last_op.op \in {"update_transform", "update_transform_shift"}
    /\ applied_rect # << >>

\* The state of the session the last update_transform ran in: the start
\* rectangle, the handle and the pointer delta, none of which a resize
\* update changes, and the rectangle before the aspect lock and the clamp.
LastStartRect == th_start_rect[last_op.item]

LastHandle == th_active_handle[last_op.item]

LastDelta == PSub(last_op.pt, th_start_pos[last_op.item])

LastMoved == MovedRect(LastStartRect, LastHandle, LastDelta[1], LastDelta[2])

\* C14: after every resize update, with or without aspect lock, the
\* rectangle applied to the element is at least 8 wide and 8 high.
C14_MinimumSize ==
    ResizeUpdated => RectWidth(applied_rect) >= 8 /\ RectHeight(applied_rect) >= 8

\* An update with aspect lock that dragged the handle past the opposite edge,
\* and one without: the applied rectangle is 8 wide.
C14_Witness ==
    /\ ResizeUpdated
    /\ last_op.op = "update_transform_shift"
    /\ RatioApplies(th_start_aspect_ratio[last_op.item])
    /\ RectWidth(LastMoved) < 0
    /\ RectWidth(applied_rect) = 8

Corners == {TOP_LEFT, TOP_RIGHT, BOTTOM_RIGHT, BOTTOM_LEFT}

\* The corner of rect diagonally opposite a corner handle.
OppositeCorner(rect, handle) ==
    CASE handle = TOP_LEFT -> <<rect[3], rect[4]>>
      [] handle = TOP_RIGHT -> <<rect[1], rect[4]>>
      [] handle = BOTTOM_RIGHT -> <<rect[1], rect[2]>>
      [] handle = BOTTOM_LEFT -> <<rect[3], rect[2]>>

\* The last call was a resize update with Shift held, in a session that
\* captured an aspect ratio.
LockedUpdate ==
    /\ ResizeUpdated
    /\ last_op.op = "update_transform_shift"
    /\ RatioApplies(th_start_aspect_ratio[last_op.item])

\* C15: after a resize update with the aspect lock held on a corner handle,
\* the width and height of the resulting rectangle are in the ratio captured
\* at the start of the transform, and the corner opposite the handle is
\* where it was in the start rectangle, for every pointer delta.
C15_AspectLockCorner ==
    (LockedUpdate /\ LastHandle \in Corners) =>
        /\ RectWidth(applied_rect) * th_start_aspect_ratio[last_op.item][2]
              = RectHeight(applied_rect) * th_start_aspect_ratio[last_op.item][1]
        /\ OppositeCorner(applied_rect, LastHandle)
              = OppositeCorner(LastStartRect, LastHandle)

\* The part of C15 about the opposite corner alone.
AnchorKept ==
    (LockedUpdate /\ LastHandle \in Corners) =>
        OppositeCorner(applied_rect, LastHandle) = OppositeCorner(LastStartRect, LastHandle)

\* The edges of the rectangle a handle moves: 1 left, 2 top, 3 right,
\* 4 bottom.
MovedEdges(handle) ==
    CASE handle = TOP_LEFT -> {1, 2}
      [] handle = TOP -> {2}
      [] handle = TOP_RIGHT -> {3, 2}
      [] handle = RIGHT -> {3}
      [] handle = BOTTOM_RIGHT -> {3, 4}
      [] handle = BOTTOM -> {4}
      [] handle = BOTTOM_LEFT -> {1, 4}
      [] handle = LEFT -> {1}

\* The last call was a resize update without Shift.
UnlockedUpdate ==
    /\ ResizeUpdated
    /\ last_op.op = "update_transform"

\* The edges the handle does not move are those of the start rectangle.
UnmovedEdgesKept ==
    \A edge \in (1..4) \ MovedEdges(LastHandle) : applied_rect[edge] = LastStartRect[edge]

\* C16 as stated: after a resize update without aspect lock, from any start
\* rectangle, every edge the active handle does not move equals the edge of
\* the start rectangle, the minimum-size clamp included.
C16_UnmovedEdgesKept == UnlockedUpdate => UnmovedEdgesKept

\* C16, amended: the same, from every start rectangle that is at least 8 wide
\* and 8 high.
C16_UnmovedEdgesKeptFromMinimumSize ==
    (/\ UnlockedUpdate
     /\ RectWidth(LastStartRect) >= min_size
     /\ RectHeight(LastStartRect) >= min_size) => UnmovedEdgesKept

\* A left handle dragged past the right edge of a rectangle 96 wide: the
\* clamp made the rectangle 8 wide and the right edge stayed.
C16_Witness ==
    /\ UnlockedUpdate
    /\ RectWidth(LastStartRect) >= min_size
    /\ RectHeight(LastStartRect) >= min_size
    /\ LastHandle \in {TOP_LEFT, LEFT, BOTTOM_LEFT}
    /\ RectWidth(LastMoved) < min_size
    /\ RectWidth(applied_rect) = min_size
    /\ applied_rect[3] = LastStartRect[3]

\* C17: after every resize update, on a drawable of any class, the width and
\* height of the element's boundingRect are those of the clamped rectangle
\* the update computed, and so are its width and height properties (neither
\* class modelled has an "x" or "y" property).
C17_BoundingRectFollows ==
    ResizeUpdated =>
        /\ RectWidth(boundingRect(World, last_op.item)) = RectWidth(applied_rect)
        /\ RectHeight(boundingRect(World, last_op.item)) = RectHeight(applied_rect)
        /\ item_size[last_op.item] = <<RectWidth(applied_rect), RectHeight(applied_rect)>>

\* The same for the elements that are rectangles.
RectangleFollows ==
    (ResizeUpdated /\ item_kind[last_op.item] = RECTANGLE) => C17_BoundingRectFollows

\* The last call was an update_transform in a rotation session.
RotationUpdated ==
    /\ last_op.op \in {"update_transform", "update_transform_shift"}
    /\ LastHandle = ROTATION

\* The angle from the pointer vector at the start of the session to the
\* vector of the last position, about the centre of the element.
SweptAngle ==
    vector_angle(FromCentre(boundingRect(World, last_op.item), last_op.pt))
      - vector_angle(FromCentre(boundingRect(World, last_op.item),
                                session_pos[last_op.item]))

\* C18: with the snap modifier held, the rotation every rotation update sets
\* on the element is an exact multiple of 15 degrees.
C18_SnapToFifteen ==
    (RotationUpdated /\ last_op.op = "update_transform_shift") =>
        item_rotation[last_op.item] % snap_step = 0

\* The first update of a session, with Shift: the rotation before plus the
\* angle swept is no multiple of 15 degrees, the rotation set is one.
C18_Witness ==
    /\ RotationUpdated
    /\ last_op.op = "update_transform_shift"
    /\ session_updates[last_op.item] = 1
    /\ (session_rotation[last_op.item] + SweptAngle) % snap_step # 0
    /\ item_rotation[last_op.item] % snap_step = 0
    /\ item_rotation[last_op.item] # 0

\* C19: in a rotation session without snap, the rotation after the last
\* update is the rotation at the start of the session plus the angle swept
\* from the start pointer vector to the vector of the last position, modulo
\* 360 degrees, whatever the positions in between.
C19_RotationTelescopes ==
    (RotationUpdated /\ ~session_snapped[last_op.item]) =>
        (item_rotation[last_op.item]
           - (session_rotation[last_op.item] + SweptAngle)) % 720 = 0

\* Two updates or more without snap that left the element rotated.
C19_Witness ==
    /\ RotationUpdated
    /\ ~session_snapped[last_op.item]
    /\ session_updates[last_op.item] = 2
    /\ last_op.pt # session_pos[last_op.item]
    /\ item_rotation[last_op.item] # session_rotation[last_op.item]

\* The element: its rectangle, rotation, position and properties.
element == <<item_size, item_rotation, item_pos, item_kind>>

\* The state of the transform handlers.
handler == <<th_active_handle, th_start_rect, th_start_pos, th_start_aspect_ratio>>

\* C20: end_transform changes nothing on the element, and from then until the
\* next start_transform_at every update_transform returns false and changes
\* neither the element nor the handler.
C20_EndThenInert ==
    [][/\ last_op'.op = "end_transform" => UNCHANGED element
       /\ (/\ last_op'.op \in {"update_transform", "update_transform_shift"}
           /\ ~session_open[last_op'.item])
          => (~update_result' /\ UNCHANGED element /\ UNCHANGED handler)]_vars

\* A rotation session that turned the element and was ended, and an
\* update_transform after it that returned false.
C20_Witness ==
    /\ last_op.op \in {"update_transform", "update_transform_shift"}
    /\ ~session_open[last_op.item]
    /\ ~update_result
    /\ session_pos[last_op.item] # NoPoint
    /\ session_updates[last_op.item] = 2
    /\ item_rotation[last_op.item] # session_rotation[last_op.item]
\* What hit-testing a point against the handles computed anew from the item's
\* current bounding rectangle gives.
FreshHit(item, pos) == HitTest(HandleRects(boundingRect(World, item)), pos)

\* C21: after any sequence of resizes, property updates, moves, cache
\* invalidations and handle_at calls, handle_at(p) returns the handle that
\* hit-testing p against a handle set freshly computed from the current
\* bounding rectangle returns; being a function of the geometry and the point
\* alone, two calls with the same point and unchanged geometry agree.
C21_HandleAtIsFresh ==
    last_op.op = "handle_at" => handle_hit = FreshHit(last_op.item, last_op.pt)

\* handle_at finds the RIGHT handle of a rectangle that update_properties
\* made 20 x 20.
C21_Witness ==
    /\ last_op.op = "handle_at"
    /\ last_op.pt = <<24, 10>>
    /\ item_kind[last_op.item] = RECTANGLE
    /\ item_size[last_op.item] = <<20, 20>>
    /\ handle_hit = RIGHT
    /\ th_last_rect[last_op.item] = RectAt(0, 0, 20, 20)

\* C28: after any sequence of placements, scene loads, update_properties
\* calls with arbitrary width and height values and resizes, the width and
\* the height of every element are at least 0.
C28_SizesNotNegative ==
    \A i \in Items :
        item_size[i] # << >> => item_size[i][1] >= 0 /\ item_size[i][2] >= 0

\* The last call changed the width or the height of an element.
SizeChanged == last_op.op = "update_properties_size" \/ ResizeUpdated

\* C29: for every operation that changes an element's width or height
\* (update_properties with width or height, each resize update),
\* prepareGeometryChange is issued before the new dimensions are stored, and
\* the cached handle geometry is invalidated.
C29_NotifiedBeforeStore ==
    SizeChanged => /\ prepare_order = NOTIFIED_BEFORE
                   /\ th_handles_cache[last_op.item] = << >>
                   /\ th_last_rect[last_op.item] = << >>

\* The half of C29 the code keeps: the handle cache is dropped.
CacheDropped ==
    SizeChanged => /\ th_handles_cache[last_op.item] = << >>
                   /\ th_last_rect[last_op.item] = << >>

\* C30: for every combination of the selected, hovering and mid-move flags, one
\* paint draws at most one decoration: the handle overlay only if the item is
\* selected, and nothing if it is also mid-move; the dashed hover outline only
\* if it is hovered and not selected; never both.
C30_OneDecoration ==
    last_op.op = "paint" =>
        LET item == last_op.item
        IN  /\ Cardinality(painted) <= 1
            /\ HANDLES \in painted => item_selected[item]
            /\ item_selected[item] /\ item_is_moving[item] => painted = {}
            /\ HOVER \in painted => item_is_hovering[item] /\ ~item_selected[item]

\* A selected item painted mid-move with the pointer over it: nothing is drawn.
C30_Witness ==
    /\ last_op.op = "paint"
    /\ item_selected[last_op.item]
    /\ item_is_moving[last_op.item]
    /\ item_is_hovering[last_op.item]
    /\ painted = {}

\* C26: after any sequence of zoom_in, zoom_out, set_scale(x) for arbitrary x,
\* zoom_to_100 and control-wheel events, the scale factor lies in [0.1, 10.0];
\* zoom_in at the maximum and zoom_out at the minimum leave it unchanged.
C26_ScaleInRange ==
    /\ zm_scale_factor # NaN
    /\ ~Less(zm_scale_factor, <<1, 10>>)
    /\ ~Less(<<10, 1>>, zm_scale_factor)
    /\ last_op.op = "zoom_in" /\ scale_before[1] = <<10, 1>>
          => zm_scale_factor = <<10, 1>>
    /\ last_op.op = "zoom_out" /\ scale_before[1] = <<1, 10>>
          => zm_scale_factor = <<1, 10>>

\* zoom_in at the maximum, which set_scale(25) had reached.
C26_Witness ==
    /\ last_op.op = "zoom_in"
    /\ scale_before[1] = <<10, 1>>
    /\ zm_scale_factor = <<10, 1>>

\* The last call was handle_wheel_event, with this delta and these modifiers.
WheelHandled == last_op.op = "handle_wheel_event"
WheelDelta == last_arg.delta
WheelModifiers == last_arg.modifiers

\* Nothing of the zoom changed in the last call.
ZoomUnchanged ==
    /\ zm_scale_factor = scale_before[1]
    /\ view_scale = scale_before[2]
    /\ zoom_changed = << >>

\* C27: handle_wheel_event with the control modifier consumes the event
\* (returns true) and changes the scale by one zoom step in the wheel
\* direction; without the control modifier it returns false and leaves the
\* scale and the view transform unchanged.
C27_WheelStep ==
    WheelHandled =>
        IF WheelModifiers = ControlModifier
        THEN /\ wheel_result = <<TRUE>>
             /\ WheelDelta > 0 => zm_scale_factor = Times(scale_before[1], <<6, 5>>)
             /\ WheelDelta < 0 => zm_scale_factor = Over(scale_before[1], <<6, 5>>)
        ELSE wheel_result = <<FALSE>> /\ ZoomUnchanged

\* a clamped to [0.1, 10.0].
Clamped(a) ==
    IF Less(<<10, 1>>, a) THEN <<10, 1>> ELSE IF Less(a, <<1, 10>>) THEN <<1, 10>> ELSE a

\* C27, amended: with the control modifier handle_wheel_event returns true and
\* sets the scale to the scale times 1.2 if the wheel's vertical delta is
\* positive and to the scale divided by 1.2 otherwise (a zero delta included),
\* clamped to [0.1, 10.0]; without the control modifier it returns false and
\* leaves the scale and the view transform unchanged.
C27_WheelStepClamped ==
    WheelHandled =>
        IF WheelModifiers = ControlModifier
        THEN /\ wheel_result = <<TRUE>>
             /\ zm_scale_factor =
                    Clamped(IF WheelDelta > 0
                            THEN Times(scale_before[1], <<6, 5>>)
                            ELSE Over(scale_before[1], <<6, 5>>))
             /\ view_scale = zm_scale_factor
        ELSE wheel_result = <<FALSE>> /\ ZoomUnchanged

\* A control-wheel notch up at scale 9: the step to 10.8 is cut at 10.
C27_Witness ==
    /\ WheelHandled
    /\ WheelModifiers = ControlModifier
    /\ WheelDelta = 120
    /\ scale_before[1] = <<9, 1>>
    /\ zm_scale_factor = <<10, 1>>
    /\ wheel_result = <<TRUE>>

\* The last handler was a pointer-down in placement mode.
PlacedNow == last_op.op = "place"

C23_NoPreviewOutsidePlacement == ~placement_mode => preview_item = << >>

\* The Select tool set while the button tool showed its preview.
C23_Witness ==
    /\ last_op.op = "set_active_tool"
    /\ last_arg.tool = TOOL_SELECT
    /\ last_arg.preview # << >>
    /\ ~placement_mode
    /\ preview_item = << >>

\* C24: after any sequence of placements and child removals, no two children
\* share an instance_id.
C24_InstanceIdsUnique ==
    \A i, j \in 1..Len(children) :
        children[i].instance_id = children[j].instance_id => i = j

\* C25: if an element is removed from the scene (delete key, scene reload)
\* while a move session references it, update_move, finish_move and
\* cancel_move skip the removed element, still process the remaining selected
\* elements, and raise no error.
C25_RemovedElementSkipped ==
    last_op.op \in {"update_move", "finish_move", "cancel_move"} => ~raised

\* The half of C25 the code keeps: after the delete key, which empties the
\* selection, the three operations raise nothing.
AfterDeleteNoError ==
    /\ last_op.op \in {"update_move", "finish_move", "cancel_move"}
    /\ selected_items \cap deleted = {}
    => ~raised

C34_NewPositionIsActual ==
    last_op.op = "finish_move" =>
        \A i \in DOMAIN item_moved : item_moved[i][3] = item_pos[i]

\* C36: at no reachable state of the canvas are marquee selection active and
\* a move in progress both, for any sequence of pointer-down events with any
\* buttons, pointer moves and pointer-ups.
C36_MarqueeExcludesMove == ~(marquee_active /\ sm_is_moving)

\* C35: after every pointer-up event on the canvas no move is in progress and
\* no marquee is active, even when the active tool was switched or the scene
\* reloaded between the pointer-down and the pointer-up.
C35_IdleAfterRelease ==
    last_op.op = "mouseReleaseEvent" => ~sm_is_moving /\ ~marquee_active

\* The rotation the element has is within half a snap step of the rotation at
\* the start of the session plus the angle swept since.
NearestToSwept ==
    2 * Abs(item_rotation[last_op.item]
              - (session_rotation[last_op.item] + SweptAngle)) <= snap_step

\* C38: over one rotation session with the snap modifier held on every
\* update, whatever the pointer positions, many small steps included, the
\* rotation after the last update is the multiple of 15 degrees nearest to the
\* rotation at the start of the session plus the whole angle the pointer
\* swept about the centre of the element.
C38_SnapFollowsSweep ==
    (RotationUpdated /\ ~session_plain[last_op.item]) =>
        /\ item_rotation[last_op.item] % snap_step = 0
        /\ NearestToSwept

\* What the code keeps of C38: the first snapped update of a session sets the
\* multiple of 15 degrees nearest to the rotation before plus the angle swept.
FirstSnapIsNearest ==
    (/\ RotationUpdated
     /\ ~session_plain[last_op.item]
     /\ session_updates[last_op.item] = 1) =>
        /\ item_rotation[last_op.item] % snap_step = 0
        /\ NearestToSwept

\* C39: after any sequence of zoom operations (ScreenWidget.zoom_in and
\* zoom_out, ScreenCanvas.set_scale_factor, ZoomManager zoom_in, zoom_out and
\* zoom_to_100, control-wheel events) the three stored scale factors agree:
\* ScreenWidget._scale_factor, ScreenCanvas._scale_factor and
\* ZoomManager.scale_factor.
C39_ScaleFactorsAgree ==
    /\ sw_scale_factor = canvas_scale_factor
    /\ canvas_scale_factor = zm_scale_factor

\* What the code keeps of C39: the canvas and the zoom manager agree with each
\* other and with the view.
CanvasAgreesWithManager ==
    /\ canvas_scale_factor = zm_scale_factor
    /\ view_scale = zm_scale_factor

\* C40: after any sequence of load_from_project, clear_all,
\* _perform_add_screen (with or without an explicit screen id) and
\* _perform_remove_screen, an identifier _get_new_screen_id returns is never
\* the identifier of a screen already stored: adding a screen without an
\* explicit id overwrites no screen.
C40_NewIdIsUnused ==
    last_op.op = "add_screen" => new_screen_id \notin Keys(screens_before)

\* A session was started on the element, and the rotation or the size, the
\* properties a session changes, differ from those at its start.
SessionChangedGeometry(item) ==
    /\ session_pos[item] # NoPoint
    /\ \/ item_rotation[item] # session_rotation[item]
       \/ item_size[item] # session_size[item]

\* C31: when a resize or rotate session that changed the rotation or the size
\* of an element has ended, a call of the session has emitted a notification
\* that carries the identifier of the element with its values before and
\* after.
C31_ChangedSessionIsNotified ==
    \A item \in Items :
        (last_op.op = "end_transform" /\ last_op.item = item
         /\ SessionChangedGeometry(item))
        => session_notified[item]

\* C32: the editor shows "no selection" for an empty selection, "multiple
\* selected" for more than one element, and for exactly one element the
\* editor of its type with the identifier of the element as the current
\* object.
C32_SelectionIsExposed ==
    /\ selected_items = {} => ShownToEditor.page = BLANK_PAGE
    /\ Cardinality(selected_items) > 1 => ShownToEditor.page = MULTI_SELECT_PAGE
    /\ \A item \in Items :
          selected_items = {item} =>
              /\ ShownToEditor.page = editor_of(item_kind[item])
              /\ ShownToEditor.current_object_id = PlainId(get_item_id(item))

\* The part of it that holds: no selection shows the blank page, more than
\* one element the page of a multiple selection, and one element never shows
\* an editor.
EditorShowsNoSingleElement ==
    /\ selected_items = {} => ShownToEditor.page = BLANK_PAGE
    /\ Cardinality(selected_items) > 1 => ShownToEditor.page = MULTI_SELECT_PAGE
    /\ Cardinality(selected_items) = 1 =>
          /\ ShownToEditor.page = BLANK_PAGE
          /\ ShownToEditor.current_object_id.wrapped

\* C33: every member of the selection set is a selectable element that is in
\* the scene: not the background, and not an item a scene reload destroyed.
C33_SelectionIsInScene ==
    /\ selected_items \subseteq (scene_items \cap Items)
    /\ selected_items \cap deleted = {}

====
